---- MODULE Spec2Model ----
(***************************************************************************)
(* The invoices plugin (src/unnamed/part_001): wallet verification,        *)
(* invoices and the cached on-chain event synchronisation they rest on.    *)
(*                                                                         *)
(* Strings that the code cuts or joins (ids, comments, tags) are sequences *)
(* of tokens, "|" and "#" being tokens of their own, so that                *)
(* concatenation is \o and commentTag really splits at the first "|".      *)
(* Times are milliseconds since the epoch, as Date.now() and the ISO       *)
(* strings of the code (toISOString / Date.parse are exact on them);       *)
(* upstream event times are seconds.  A nullable number is NULLI, a        *)
(* nullable string or token sequence is the empty one, a missing row is    *)
(* NoRow.                                                                  *)
(*                                                                         *)
(* A tool invocation runs atomically up to its next upstream request       *)
(* (JavaScript runs to the next await on I/O); the request's answer is a   *)
(* later step, and other invocations, the clock and the chain move in      *)
(* between.                                                                *)
(***************************************************************************)
EXTENDS Integers, Sequences, FiniteSets, Bags, TLC

VARIABLES now, chain, codes, invoices, agents, transfers, wallet_sync, procs,
          ret, paidProof, syncEndedAt, config, rate_limits, rateWindow,
          lastRequestTime, requests, expiredReturned, retry

vars == <<now, chain, codes, invoices, agents, transfers, wallet_sync, procs,
          ret, paidProof, syncEndedAt, config, rate_limits, rateWindow,
          lastRequestTime, requests, expiredReturned, retry>>

\* ------------------------------------------------------------------ bounds

\* The clock advances in steps of TickMs, MaxTicks times at most.
TickMs == 70000
MaxTicks == 1
MaxSeqTicks == 2
\* Events the chain may hold.
MaxEvents == 2
\* Invocations that may be awaiting an upstream answer at the same time.
NProcs == 2
\* Challenges one agent may be issued (each draws a fresh code).
MaxChallenges == 2
\* Page size of one upstream request (the code asks for 50) and rows one
\* cache query reads (the code reads 50), scaled to the chain's size.
EVENT_PAGE_LIMIT == 1
QUERY_LIMIT == 2

\* ------------------------------------------------------- program constants

VERIFY_TTL_MINUTES == 60
EVENT_MAX_PAGES_NEW == 3
EVENT_MAX_PAGES_OLD == 6
SYNC_MIN_INTERVAL_MS == 3000
MS_PER_MINUTE == 60000
MS_PER_SECOND == 1000
NANO_PER_TON == 1000000000
\* VERIFY_DEFAULT_TON "0.01" through toNanoString.
VERIFY_DEFAULT_NANO == NANO_PER_TON \div 100

NULLI == 0 - 1
NoRow == [exists |-> FALSE]
NoMatch == [exists |-> FALSE]

\* ---------------------------------------------------------------- inputs

\* The agent's own wallet (wallet.json), two payer wallets in raw form and
\* the user-friendly form of the first.
AgentWallet == "0:agent"
W1 == "0:w1"
W2 == "0:w2"
W1Friendly == "EQ_W1"

FirstInvoice == <<"i1">>
InvoiceIds == {FirstInvoice, <<"i2">>}
AgentIds == {<<"a1">>}
SyncWallets == {AgentWallet}

\* amount_ton "1.5" and "2" through toNanoString.
InvoiceNano == 3 * (NANO_PER_TON \div 2)
LargerNano == 2 * NANO_PER_TON

Min(a, b) == IF a < b THEN a ELSE b
Max(a, b) == IF a > b THEN a ELSE b

\* --------------------------------------------------------- pure functions

\* normalizeAddress: the raw form of an address ("" for none).
normalizeAddress(addr) ==
  CASE addr = "" -> ""
    [] addr = W1Friendly -> W1
    [] OTHER -> addr

sameAddress(a, b) ==
  LET na == normalizeAddress(a)
      nb == normalizeAddress(b)
  IN na # "" /\ nb # "" /\ na = nb

\* formatTon: whole TON and the nine-digit fraction of a nano amount.
formatTon(nano) == <<nano \div NANO_PER_TON, nano % NANO_PER_TON>>

\* sanitizeTag: keeps [a-zA-Z0-9_@.-], so the "|" and "#" tokens go.
sanitizeTag(value, maxLen) ==
  LET cleaned == SelectSeq(value, LAMBDA t : t \notin {"|", "#", "INV#", "REG#"})
  IN SubSeq(cleaned, 1, Min(Len(cleaned), maxLen))

buildInvoiceComment(invoiceId, payerAgent) ==
  LET tag == <<"INV#">> \o invoiceId
      payer == sanitizeTag(payerAgent, 32)
  IN IF payer # <<>> THEN tag \o <<"|", "payer:">> \o payer ELSE tag

buildVerificationTag(agentId, code) ==
  LET s == sanitizeTag(agentId, 24)
      safe == IF s # <<>> THEN s ELSE <<"agent">>
  IN <<"REG#">> \o safe \o <<"#", code>>

\* commentTag: the comment up to its first "|" (<<>> for none).
RECURSIVE commentTag(_)
commentTag(comment) ==
  IF comment = <<>> \/ Head(comment) = "|" THEN <<>>
  ELSE <<Head(comment)>> \o commentTag(Tail(comment))

\* eventTimeMs: upstream seconds to milliseconds.
eventTimeMs(ts) == IF ts = NULLI THEN NULLI ELSE ts * MS_PER_SECOND

maxBigInt(a, b) == IF a = NULLI THEN b ELSE IF b = NULLI THEN a ELSE Max(a, b)
minBigInt(a, b) == IF a = NULLI THEN b ELSE IF b = NULLI THEN a ELSE Min(a, b)

\* ----------------------------------------------------------------- cache

\* ORDER BY timestamp ASC; rows of one millisecond are taken in event order.
RowBefore(r, q) ==
  \/ r.timestamp < q.timestamp
  \/ r.timestamp = q.timestamp /\ r.event_id < q.event_id
  \/ r.timestamp = q.timestamp /\ r.event_id = q.event_id
       /\ r.action_index <= q.action_index

RECURSIVE SortByTime(_)
SortByTime(S) ==
  IF S = {} THEN <<>>
  ELSE LET m == CHOOSE r \in S : \A q \in S : RowBefore(r, q)
       IN <<m>> \o SortByTime(S \ {m})

\* stmtTransferQuery: the first `limit` rows of (wallet, tag) inside the window.
stmtTransferQuery(cache, wallet, tag, startMs, endMs, limit) ==
  LET hit == {r \in cache : /\ r.wallet = wallet
                            /\ r.comment_tag = tag
                            /\ r.timestamp # NULLI
                            /\ r.timestamp >= startMs
                            /\ r.timestamp <= endMs}
      sorted == SortByTime(hit)
  IN SubSeq(sorted, 1, Min(Len(sorted), limit))

\* The row filter without its amount test.
RowPassesAnyAmount(row, minAmountNano, expectedSender, strictSender) ==
  ~(expectedSender # "" /\ strictSender /\ ~sameAddress(row.sender, expectedSender))

\* The row filter of queryCachedTransfer.
RowPasses(row, minAmountNano, expectedSender, strictSender) ==
  /\ row.amount_nano >= minAmountNano
  /\ ~(expectedSender # "" /\ strictSender /\ ~sameAddress(row.sender, expectedSender))

RECURSIVE FirstPassing(_, _, _, _)
FirstPassing(rows, minAmountNano, expectedSender, strictSender) ==
  IF rows = <<>> THEN NoMatch
  ELSE IF RowPasses(Head(rows), minAmountNano, expectedSender, strictSender)
       THEN Head(rows)
       ELSE FirstPassing(Tail(rows), minAmountNano, expectedSender, strictSender)

queryCachedTransfer(cache, wallet, tag, startMs, endMs, minAmountNano, expectedSender, strictSender) ==
  FirstPassing(stmtTransferQuery(cache, wallet, tag, startMs, endMs, QUERY_LIMIT),
               minAmountNano, expectedSender, strictSender)

Query(cache, c) ==
  queryCachedTransfer(cache, c.wallet, c.tag, c.startMs, c.endMs,
                      c.minAmountNano, c.expectedSender, c.strictSender)

\* ---------------------------------------------------------------- ingest

\* The transfer rows ingestEvents offers for one event (one per TonTransfer
\* action addressed to the wallet; action_index counts from 0).
EventRows(wallet, ev, nowIso) ==
  {[wallet |-> wallet,
    event_id |-> ev.event_id,
    action_index |-> i - 1,
    lt |-> ev.lt,
    timestamp |-> eventTimeMs(ev.timestamp),
    sender |-> normalizeAddress(ev.actions[i].sender),
    recipient |-> normalizeAddress(ev.actions[i].recipient),
    amount_nano |-> ev.actions[i].amount,
    comment |-> ev.actions[i].comment,
    comment_tag |-> commentTag(ev.actions[i].comment),
    inserted_at |-> nowIso] :
   i \in {j \in 1..Len(ev.actions) :
            /\ ev.actions[j].type = "TonTransfer"
            /\ sameAddress(ev.actions[j].recipient, wallet)}}

RowKey(r) == <<r.wallet, r.event_id, r.action_index>>

\* INSERT OR REPLACE in the place of INSERT OR IGNORE.
stmtTransferInsertOrReplace(cache, rows) ==
  {q \in cache : \A r \in rows : RowKey(q) # RowKey(r)} \cup rows

\* stmtTransferInsert: INSERT OR IGNORE on (wallet, event_id, action_index).
stmtTransferInsert(cache, rows) ==
  cache \cup {r \in rows : \A q \in cache : RowKey(q) # RowKey(r)}

SeqRange(s) == {s[k] : k \in 1..Len(s)}

\* ingestEvents: the cache after the page is inserted.
ingestEvents(cache, wallet, events, nowIso) ==
  stmtTransferInsert(cache, UNION {EventRows(wallet, ev, nowIso) : ev \in SeqRange(events)})

SetMin(S) == IF S = {} THEN NULLI ELSE CHOOSE x \in S : \A y \in S : x <= y
SetMax(S) == IF S = {} THEN NULLI ELSE CHOOSE x \in S : \A y \in S : x >= y

\* ingestEvents: the page's lt and timestamp range (its return value).
PageStats(events) ==
  LET lts == {ev.lt : ev \in SeqRange(events)} \ {NULLI}
      tss == {eventTimeMs(ev.timestamp) : ev \in SeqRange(events)} \ {NULLI}
  IN [min_lt |-> SetMin(lts), max_lt |-> SetMax(lts),
      min_ts |-> SetMin(tss), max_ts |-> SetMax(tss)]

EmptyStats == [min_lt |-> NULLI, max_lt |-> NULLI, min_ts |-> NULLI, max_ts |-> NULLI]

\* The running range of a sync over its pages (syncNewEvents and
\* syncOlderEvents merge each page the same way).
MergeStats(stats, pageStats) ==
  [max_lt |-> IF pageStats.max_lt # NULLI THEN maxBigInt(stats.max_lt, pageStats.max_lt)
              ELSE stats.max_lt,
   min_lt |-> IF pageStats.min_lt # NULLI THEN minBigInt(stats.min_lt, pageStats.min_lt)
              ELSE stats.min_lt,
   max_ts |-> IF pageStats.max_ts # NULLI THEN maxBigInt(stats.max_ts, pageStats.max_ts)
              ELSE stats.max_ts,
   min_ts |-> IF pageStats.min_ts # NULLI THEN minBigInt(stats.min_ts, pageStats.min_ts)
              ELSE stats.min_ts]

\* updateWalletSync: the wallet's row after a sync that saw `stats`.
updateWalletSync(current, stats, t) ==
  [exists |-> TRUE,
   last_sync_at |-> t,
   max_lt |-> IF stats.max_lt # NULLI THEN stats.max_lt
              ELSE IF current.exists THEN current.max_lt ELSE NULLI,
   min_lt |-> IF stats.min_lt # NULLI THEN stats.min_lt
              ELSE IF current.exists THEN current.min_lt ELSE NULLI,
   max_ts |-> IF stats.max_ts # NULLI THEN stats.max_ts
              ELSE IF current.exists THEN current.max_ts ELSE NULLI,
   min_ts |-> IF stats.min_ts # NULLI THEN stats.min_ts
              ELSE IF current.exists THEN current.min_ts ELSE NULLI]

\* -------------------------------------------------------------- upstream

\* GET /v2/accounts/{wallet}/events as the sync engine calls it: the events
\* of the account inside [start_date, end_date], above after_lt or below
\* before_lt, in the asked order, a page of `limit` at most.
RECURSIVE OrderByLt(_, _)
OrderByLt(S, asc) ==
  IF S = {} THEN <<>>
  ELSE LET m == CHOOSE e \in S : \A f \in S : IF asc THEN e.lt <= f.lt ELSE e.lt >= f.lt
       IN <<m>> \o OrderByLt(S \ {m}, asc)

UpstreamPage(events, q) ==
  LET hit == {e \in SeqRange(events) :
                /\ q.start_date = NULLI \/ e.timestamp >= q.start_date
                /\ q.end_date = NULLI \/ e.timestamp <= q.end_date
                /\ q.after_lt = NULLI \/ e.lt > q.after_lt
                /\ q.before_lt = NULLI \/ e.lt < q.before_lt}
      sorted == OrderByLt(hit, q.sort_order = "asc")
  IN SubSeq(sorted, 1, Min(Len(sorted), q.limit))

\* The request parameters syncNewEvents builds.
NewParams(afterLt, startMs, endMs) ==
  [limit |-> EVENT_PAGE_LIMIT,
   sort_order |-> IF afterLt # NULLI THEN "asc" ELSE "desc",
   after_lt |-> afterLt,
   before_lt |-> NULLI,
   start_date |-> IF startMs > 0 THEN startMs \div MS_PER_SECOND ELSE NULLI,
   end_date |-> IF endMs > 0 THEN endMs \div MS_PER_SECOND ELSE NULLI]

\* The request parameters syncOlderEvents builds.
OldParams(beforeLt, startMs, endMs) ==
  [limit |-> EVENT_PAGE_LIMIT,
   sort_order |-> "desc",
   after_lt |-> NULLI,
   before_lt |-> beforeLt,
   start_date |-> IF startMs > 0 THEN startMs \div MS_PER_SECOND ELSE NULLI,
   end_date |-> IF endMs > 0 THEN endMs \div MS_PER_SECOND ELSE NULLI]

\* ------------------------------------------------------------------ state

NoProof == [event_id |-> NULLI, sender |-> "", amount_ton |-> <<>>, at |-> NULLI]

NoCrit == [wallet |-> ""]

\* context.senderId: an integer, or a value that is none (a string, a
\* fraction, undefined).
SenderId(n) == [integer |-> TRUE, n |-> n]
NotAnInteger == [integer |-> FALSE, n |-> 1]
NoSender == [integer |-> FALSE, n |-> 0]

\* What the invocation that completed in the last step returned (NoRet when
\* the last step completed none), with what it did on the way: the criteria
\* it searched by, the transfer findTransferWithSync answered and the
\* upstream requests it issued.
NoRet ==
  [tool |-> "none", id |-> <<>>, success |-> FALSE, status |-> "", proof |-> NoProof,
   source |-> "", startExpired |-> FALSE, startStatus |-> "", priorPaid |-> FALSE,
   fetches |-> 0, crit |-> NoCrit, match |-> NoMatch, sender |-> NoSender,
   retryAfterMs |-> 0, identity_level |-> ""]

MkRet(call, success, status, proof, source, fetches, match) ==
  [tool |-> call.tool, id |-> call.id, success |-> success, status |-> status,
   proof |-> proof, source |-> source, startExpired |-> call.startExpired,
   startStatus |-> call.startStatus, priorPaid |-> call.priorPaid,
   fetches |-> fetches, crit |-> call.crit, match |-> match, sender |-> NoSender,
   retryAfterMs |-> 0, identity_level |-> ""]

\* identity_level as inv_create works it out from what it is about to store.
createIdentityLevel(expectedSender, payerVerified, payerAgent, strictSender) ==
  IF expectedSender # ""
  THEN (IF payerVerified = 1 THEN "wallet_verified" ELSE "wallet")
  ELSE IF payerAgent = <<>> /\ ~strictSender THEN "none"
  ELSE "comment_only"

\* identity_level as inv_check and inv_receipt work it out from the row.
storedIdentityLevel(invoice) ==
  IF invoice.expected_sender_wallet # ""
  THEN (IF invoice.payer_agent_verified = 1 THEN "wallet_verified" ELSE "wallet")
  ELSE "comment_only"

InitStore ==
  /\ now = TickMs
  /\ chain = <<>>
  /\ codes = 0
  /\ invoices = [i \in InvoiceIds |-> NoRow]
  /\ agents = [a \in AgentIds |-> NoRow]
  /\ transfers = {}
  /\ wallet_sync = [w \in SyncWallets |-> NoRow]
  /\ procs = EmptyBag
  /\ ret = NoRet
  /\ paidProof = [i \in InvoiceIds |-> NoProof]
  /\ syncEndedAt = [w \in SyncWallets |-> NULLI]
  /\ expiredReturned = {}

\* ------------------------------------------------------------ environment

\* Date.now() moves on.
Tick(maxTicks) ==
  /\ now + TickMs <= TickMs * (maxTicks + 1)
  /\ now' = now + TickMs
  /\ ret' = NoRet
  /\ UNCHANGED <<chain, codes, invoices, agents, transfers, wallet_sync, procs, paidProof, syncEndedAt>>

\* The comments payers are shown: those of the stored invoices and the
\* current challenge tags.
KnownComments ==
  {invoices[i].comment : i \in {j \in DOMAIN invoices : invoices[j].exists}}
    \cup {agents[a].challenge_tag : a \in {b \in AgentIds : agents[b].exists}}

ChainEvent(actions) ==
  [event_id |-> Len(chain) + 1, lt |-> Len(chain) + 1,
   timestamp |-> now \div MS_PER_SECOND, actions |-> actions]

\* A transfer to the agent wallet lands on chain.
ChainTransfer(sender, amount, comment) ==
  /\ Len(chain) < MaxEvents
  /\ comment \in KnownComments
  /\ chain' = Append(chain, ChainEvent(<<[type |-> "TonTransfer", sender |-> sender,
                                         recipient |-> AgentWallet, amount |-> amount,
                                         comment |-> comment]>>))
  /\ ret' = NoRet
  /\ UNCHANGED <<now, codes, invoices, agents, transfers, wallet_sync, procs, paidProof, syncEndedAt>>

\* The agent wallet pays out: an event of the account with no transfer to it.
ChainOutgoing ==
  /\ Len(chain) < MaxEvents
  /\ chain' = Append(chain, ChainEvent(<<[type |-> "TonTransfer", sender |-> AgentWallet,
                                         recipient |-> W2, amount |-> InvoiceNano,
                                         comment |-> <<>>]>>))
  /\ ret' = NoRet
  /\ UNCHANGED <<now, codes, invoices, agents, transfers, wallet_sync, procs, paidProof, syncEndedAt>>

\* ------------------------------------------------- completing a check

\* invCheck.execute from the answer of findTransferWithSync on.
FinishCheck(call, match, source, fetches) ==
  LET i == call.id
      row == invoices[i]
      paidAt == IF match # NoMatch /\ match.timestamp > 0
                THEN match.timestamp * MS_PER_SECOND ELSE now
      proof == IF match = NoMatch THEN NoProof
               ELSE [event_id |-> match.event_id, sender |-> match.sender,
                     amount_ton |-> formatTon(match.amount_nano), at |-> paidAt]
  IN /\ UNCHANGED agents
     /\ IF match = NoMatch
        THEN /\ invoices' = [invoices EXCEPT ![i].last_checked_at = now]
             /\ ret' = MkRet(call, TRUE,
                             IF source = "throttled" THEN "throttled" ELSE "not_found",
                             NoProof, source, fetches, NoMatch)
             /\ UNCHANGED paidProof
        ELSE /\ invoices' = [invoices EXCEPT ![i] =
                               [row EXCEPT !.last_checked_at = now,
                                           !.status = "paid",
                                           !.paid_at = paidAt,
                                           !.tx_event_id = match.event_id,
                                           !.tx_sender_wallet = match.sender,
                                           !.tx_amount_nano = match.amount_nano,
                                           !.tx_amount_ton = formatTon(match.amount_nano)]]
             /\ ret' = [MkRet(call, TRUE, "paid", proof, source, fetches, match)
                         EXCEPT !.identity_level = storedIdentityLevel(row)]
             /\ paidProof' = IF paidProof[i] = NoProof
                             THEN [paidProof EXCEPT ![i] = proof] ELSE paidProof

\* invConfirmVerification.execute from the answer of findTransferWithSync on.
FinishConfirm(call, match, source, fetches) ==
  LET a == call.id
      row == agents[a]
      verifiedAt == IF match # NoMatch /\ match.timestamp > 0
                    THEN match.timestamp * MS_PER_SECOND ELSE now
  IN /\ UNCHANGED <<invoices, paidProof>>
     /\ IF match = NoMatch
        THEN /\ ret' = MkRet(call, TRUE,
                             IF source = "throttled" THEN "throttled" ELSE "pending",
                             NoProof, source, fetches, NoMatch)
             /\ UNCHANGED agents
        ELSE /\ agents' = [agents EXCEPT ![a] =
                             [row EXCEPT !.status = "verified",
                                         !.verified_at = verifiedAt,
                                         !.proof_event_id = match.event_id,
                                         !.proof_sender_wallet = match.sender,
                                         !.updated_at = now]]
             /\ ret' = MkRet(call, TRUE, "verified",
                             [event_id |-> match.event_id, sender |-> match.sender,
                              amount_ton |-> <<>>, at |-> verifiedAt],
                             source, fetches, match)

Finish(call, match, source, fetches) ==
  IF call.tool = "inv_check"
  THEN FinishCheck(call, match, source, fetches)
  ELSE FinishConfirm(call, match, source, fetches)

\* --------------------------------------------------- findTransferWithSync

\* procs is the bag of invocations awaiting an upstream answer.
HasFreeSlot == BagCardinality(procs) < NProcs

Await(pr) == procs (+) SetToBag({pr})
Resume(pr, next) == (procs (-) SetToBag({pr})) (+) SetToBag({next})
Leave(pr) == procs (-) SetToBag({pr})

\* syncEndedAt records, per wallet, when the last network sync of a
\* findTransferWithSync call ended, whatever its outcome.
SyncEnds(wallet) == [syncEndedAt EXCEPT ![wallet] = now]

\* The throttle test of findTransferWithSync.
Throttled(sync, t) ==
  sync.exists /\ sync.last_sync_at > 0 /\ t - sync.last_sync_at < SYNC_MIN_INTERVAL_MS

\* findTransferWithSync up to the first request of syncNewEvents.
FindStart(call) ==
  LET c == call.crit
      cached == Query(transfers, c)
      sync == wallet_sync[c.wallet]
  IN IF cached # NoMatch
     THEN /\ Finish(call, cached, "cache", 0)
          /\ UNCHANGED <<transfers, wallet_sync, procs, syncEndedAt>>
     ELSE IF Throttled(sync, now)
     THEN /\ Finish(call, NoMatch, "throttled", 0)
          /\ UNCHANGED <<transfers, wallet_sync, procs, syncEndedAt>>
     ELSE /\ HasFreeSlot
          /\ procs' = Await([pc |-> "sync_new", call |-> call,
                              cursor |-> IF sync.exists THEN sync.max_lt ELSE NULLI,
                              page |-> 0, anyEvents |-> 0, stats |-> EmptyStats,
                              fetches |-> 1])
          /\ ret' = NoRet
          /\ UNCHANGED <<invoices, agents, paidProof, transfers, wallet_sync, syncEndedAt>>

\* findTransferWithSync after syncOlderEvents (or without it): the last query.
AfterSyncOld(pr, tr1, any1, stats1) ==
  LET c == pr.call.crit
      ws1 == IF any1 > 0 THEN updateWalletSync(wallet_sync[c.wallet], stats1, now)
             ELSE wallet_sync[c.wallet]
      hit == Query(tr1, c)
  IN /\ transfers' = tr1
     /\ wallet_sync' = [wallet_sync EXCEPT ![c.wallet] = ws1]
     /\ procs' = Leave(pr)
     /\ syncEndedAt' = SyncEnds(c.wallet)
     /\ Finish(pr.call, hit, IF hit # NoMatch THEN "sync_old" ELSE "not_found", pr.fetches)

\* A matcher that goes backward whatever the watermark.
AlwaysFetchOlder(sync, startMs) == TRUE

\* shouldFetchOlder of findTransferWithSync.
ShouldFetchOlder(sync, startMs) ==
  \/ ~sync.exists
  \/ sync.min_ts <= 0
  \/ startMs > 0 /\ sync.min_ts > startMs

\* findTransferWithSync after syncNewEvents: the watermark, the second query
\* and, on a miss, the first request of syncOlderEvents.
AfterSyncNew(pr, tr1, any1, stats1) ==
  LET c == pr.call.crit
      ws1 == IF any1 > 0 THEN updateWalletSync(wallet_sync[c.wallet], stats1, now)
             ELSE wallet_sync[c.wallet]
      hit == Query(tr1, c)
      shouldFetchOlder == ShouldFetchOlder(ws1, c.startMs)
      beforeLt == IF ws1.exists THEN ws1.min_lt ELSE NULLI
  IN /\ transfers' = tr1
     /\ wallet_sync' = [wallet_sync EXCEPT ![c.wallet] = ws1]
     /\ IF hit # NoMatch
        THEN /\ procs' = Leave(pr)
             /\ syncEndedAt' = SyncEnds(c.wallet)
             /\ Finish(pr.call, hit, "sync_new", pr.fetches)
        ELSE IF shouldFetchOlder /\ beforeLt > 0
        THEN /\ procs' = Resume(pr, [pr EXCEPT !.pc = "sync_old", !.cursor = beforeLt,
                                                !.page = 0, !.anyEvents = 0,
                                                !.stats = EmptyStats, !.fetches = @ + 1])
             /\ ret' = NoRet
             /\ UNCHANGED <<invoices, agents, paidProof, syncEndedAt>>
        ELSE /\ procs' = Leave(pr)
             /\ syncEndedAt' = SyncEnds(c.wallet)
             /\ Finish(pr.call, NoMatch, "not_found", pr.fetches)

\* A forward sync without its page cap.
SyncNewStopsUncapped(events, afterLt, page) ==
  afterLt = NULLI \/ Len(events) < EVENT_PAGE_LIMIT

\* syncNewEvents leaves its loop after a page that was not empty.
SyncNewStops(events, afterLt, page) ==
  afterLt = NULLI \/ Len(events) < EVENT_PAGE_LIMIT \/ page >= EVENT_MAX_PAGES_NEW

\* A page of syncNewEvents arrives.
SyncNewRespond(pr) ==
  LET c == pr.call.crit
      events == UpstreamPage(chain, NewParams(pr.cursor, c.startMs, c.endMs))
      pageStats == PageStats(events)
      tr1 == ingestEvents(transfers, c.wallet, events, now)
      afterLt == IF pageStats.max_lt > 0 THEN pageStats.max_lt ELSE pr.cursor
      stats1 == MergeStats(pr.stats, pageStats)
      any1 == pr.anyEvents + Len(events)
      page1 == pr.page + 1
  IN /\ pr.pc = "sync_new"
     /\ UNCHANGED <<now, chain, codes>>
     /\ IF events = <<>>
        THEN AfterSyncNew(pr, transfers, pr.anyEvents, pr.stats)
        ELSE IF SyncNewStops(events, afterLt, page1)
        THEN AfterSyncNew(pr, tr1, any1, stats1)
        ELSE /\ procs' = Resume(pr, [pr EXCEPT !.cursor = afterLt, !.page = page1,
                                                !.anyEvents = any1, !.stats = stats1,
                                                !.fetches = @ + 1])
             /\ transfers' = tr1
             /\ ret' = NoRet
             /\ UNCHANGED <<invoices, agents, paidProof, wallet_sync, syncEndedAt>>

\* A page of syncOlderEvents arrives.
SyncOldRespond(pr) ==
  LET c == pr.call.crit
      events == UpstreamPage(chain, OldParams(pr.cursor, c.startMs, c.endMs))
      pageStats == PageStats(events)
      tr1 == ingestEvents(transfers, c.wallet, events, now)
      beforeLt == IF pageStats.min_lt > 0 THEN pageStats.min_lt ELSE pr.cursor
      stats1 == MergeStats(pr.stats, pageStats)
      any1 == pr.anyEvents + Len(events)
      page1 == pr.page + 1
  IN /\ pr.pc = "sync_old"
     /\ UNCHANGED <<now, chain, codes>>
     /\ IF events = <<>>
        THEN AfterSyncOld(pr, transfers, pr.anyEvents, pr.stats)
        ELSE IF \/ pageStats.min_ts > 0 /\ c.startMs > 0 /\ pageStats.min_ts <= c.startMs
                \/ Len(events) < EVENT_PAGE_LIMIT
                \/ beforeLt = NULLI
                \/ page1 >= EVENT_MAX_PAGES_OLD
        THEN AfterSyncOld(pr, tr1, any1, stats1)
        ELSE /\ procs' = Resume(pr, [pr EXCEPT !.cursor = beforeLt, !.page = page1,
                                                !.anyEvents = any1, !.stats = stats1,
                                                !.fetches = @ + 1])
             /\ transfers' = tr1
             /\ ret' = NoRet
             /\ UNCHANGED <<invoices, agents, paidProof, wallet_sync, syncEndedAt>>

\* tonapiFetchWithRetry gives up: the error leaves the sync and the handler's
\* catch turns it into a failure result.
FetchFail(pr) ==
  /\ pr.pc \in {"sync_new", "sync_old"}
  /\ procs' = Leave(pr)
  /\ ret' = MkRet(pr.call, FALSE, "error", NoProof, "", pr.fetches, NoMatch)
  /\ syncEndedAt' = SyncEnds(pr.call.crit.wallet)
  /\ UNCHANGED <<now, chain, codes, invoices, agents, transfers, wallet_sync, paidProof>>

\* ------------------------------------------------------------------ tools
\* Each tool action is the handler's body for a call the access policy and
\* the rate limiter admit; Invoke puts the two gates in front of it.

\* The paid test of invCheck.execute, and a handler without it.
IsNeverPaid(row) == FALSE

IsPaid(row) == row.status = "paid"

\* An expiry test that never fires.
IsNeverExpired(row, t) == FALSE

\* The expiry test of invCheck.execute.
InvoiceExpired(row, t) == row.expires_at > 0 /\ t > row.expires_at

\* The expiry test of invConfirmVerification.execute.
ChallengeExpired(row, t) == row.challenge_expires_at > 0 /\ t > row.challenge_expires_at

\* The row stmtAgentUpsert writes for a new challenge.
ChallengeRow(agentId, wallet, amountNano, tag, t, ttl) ==
  [exists |-> TRUE,
   wallet_address |-> wallet,
   status |-> "pending",
   challenge_tag |-> tag,
   challenge_amount_nano |-> amountNano,
   challenge_created_at |-> t,
   challenge_expires_at |-> t + ttl * MS_PER_MINUTE,
   verified_at |-> NULLI,
   proof_event_id |-> NULLI,
   proof_sender_wallet |-> "",
   updated_at |-> t]

CodeToken(n) == <<"c1", "c2", "c3", "c4">>[n]

\* inv_begin_verification; inv_register_agent is this handler under another name.
BeginVerification(a, wallet, ttl) ==
  LET call == [tool |-> "inv_begin_verification", id |-> a, startExpired |-> FALSE,
               startStatus |-> IF agents[a].exists THEN agents[a].status ELSE "none",
               priorPaid |-> FALSE, crit |-> NoCrit]
      tag == buildVerificationTag(a, CodeToken(codes + 1))
  IN /\ codes < MaxChallenges
     /\ codes' = codes + 1
     /\ agents' = [agents EXCEPT ![a] =
                     ChallengeRow(a, wallet, VERIFY_DEFAULT_NANO, tag, now, ttl)]
     /\ ret' = MkRet(call, TRUE, "pending", NoProof, "", 0, NoMatch)
     /\ UNCHANGED <<now, chain, invoices, transfers, wallet_sync, procs, paidProof, syncEndedAt>>

\* inv_confirm_verification up to its first upstream request.
ConfirmVerification(a) ==
  LET row == agents[a]
      call == [tool |-> "inv_confirm_verification", id |-> a,
               startExpired |-> row.exists /\ row.challenge_expires_at > 0
                                 /\ now > row.challenge_expires_at,
               startStatus |-> IF row.exists THEN row.status ELSE "none",
               priorPaid |-> FALSE, crit |-> NoCrit]
      crit == [wallet |-> normalizeAddress(AgentWallet),
               tag |-> row.challenge_tag,
               minAmountNano |-> row.challenge_amount_nano,
               expectedSender |-> row.wallet_address,
               strictSender |-> TRUE,
               startMs |-> row.challenge_created_at,
               endMs |-> IF row.challenge_expires_at > 0 THEN row.challenge_expires_at
                         ELSE now]
  IN /\ UNCHANGED <<now, chain, codes>>
     /\ IF ~row.exists
        THEN /\ ret' = MkRet(call, FALSE, "error", NoProof, "", 0, NoMatch)
             /\ UNCHANGED <<invoices, agents, transfers, wallet_sync, procs, paidProof, syncEndedAt>>
        ELSE IF row.status = "verified"
        THEN /\ ret' = MkRet(call, TRUE, "verified",
                             [event_id |-> row.proof_event_id, sender |-> "",
                              amount_ton |-> <<>>, at |-> row.verified_at],
                             "", 0, NoMatch)
             /\ UNCHANGED <<invoices, agents, transfers, wallet_sync, procs, paidProof, syncEndedAt>>
        ELSE IF ChallengeExpired(row, now)
        THEN /\ ret' = MkRet(call, TRUE, "expired", NoProof, "", 0, NoMatch)
             /\ UNCHANGED <<invoices, agents, transfers, wallet_sync, procs, paidProof, syncEndedAt>>
        ELSE FindStart([call EXCEPT !.crit = crit])

\* The row stmtInvoiceInsert writes.
InvoiceRow(t, expiresAt, amountNano, recipient, expectedSender, payerAgent, payerVerified, comment, strictSender) ==
  [exists |-> TRUE,
   created_at |-> t,
   expires_at |-> expiresAt,
   amount_nano |-> amountNano,
   recipient_wallet |-> recipient,
   expected_sender_wallet |-> expectedSender,
   payer_agent |-> payerAgent,
   payer_agent_verified |-> payerVerified,
   comment |-> comment,
   status |-> "pending",
   strict_sender |-> IF strictSender THEN 1 ELSE 0,
   paid_at |-> NULLI,
   tx_event_id |-> NULLI,
   tx_sender_wallet |-> "",
   tx_amount_nano |-> NULLI,
   tx_amount_ton |-> <<>>,
   last_checked_at |-> NULLI]

\* A handler that does not look the invoice_id up before it inserts.
InvoiceIdNeverExists(invoiceId) == FALSE

\* stmtInvoiceGet.get(invoiceId) finds a row.
InvoiceIdExists(invoiceId) == invoices[invoiceId].exists

\* A handler that stores a strict invoice without an expected sender.
StrictUnguarded(strictSender, expectedSender) == FALSE

\* The strict test of invCreate.execute.
StrictWithoutExpected(strictSender, expectedSender) == strictSender /\ expectedSender = ""

\* inv_create.  par: invoice_id, amount_nano, payer_agent (<<>> for none),
\* payer_wallet ("" for none), strict_sender, allow_unverified_payer,
\* expires_in_minutes (0 for none).
InvCreate(par) ==
  LET payerAgent == par.payer_agent
      payerWallet == normalizeAddress(par.payer_wallet)
      arow == IF payerAgent \in AgentIds THEN agents[payerAgent] ELSE NoRow
      verified == arow.exists /\ arow.status = "verified" /\ arow.wallet_address # ""
      mismatch == payerAgent # <<>> /\ verified /\ payerWallet # ""
                    /\ ~sameAddress(payerWallet, arow.wallet_address)
      unverified == payerAgent # <<>> /\ ~verified /\ payerWallet = ""
      strictSender == IF unverified THEN FALSE ELSE par.strict_sender
      expectedSender == IF payerAgent # <<>> /\ verified
                        THEN normalizeAddress(arow.wallet_address) ELSE payerWallet
      payerVerified == IF payerAgent # <<>> /\ verified THEN 1 ELSE 0
      invoiceId == par.invoice_id
      call == [tool |-> "inv_create", id |-> invoiceId, startExpired |-> FALSE,
               startStatus |-> IF invoices[invoiceId].exists
                               THEN invoices[invoiceId].status ELSE "none",
               priorPaid |-> FALSE, crit |-> NoCrit]
      rejected == \/ mismatch
                  \/ unverified /\ ~par.allow_unverified_payer
                  \/ StrictWithoutExpected(strictSender, expectedSender)
                  \/ InvoiceIdExists(invoiceId)
      expiresAt == IF par.expires_in_minutes > 0
                   THEN now + par.expires_in_minutes * MS_PER_MINUTE ELSE NULLI
  IN /\ UNCHANGED <<now, chain, codes, agents, transfers, wallet_sync, procs, paidProof, syncEndedAt>>
     /\ IF rejected
        THEN /\ ret' = MkRet(call, FALSE, "error", NoProof, "", 0, NoMatch)
             /\ UNCHANGED invoices
        ELSE /\ invoices' = [invoices EXCEPT ![invoiceId] =
                               InvoiceRow(now, expiresAt, par.amount_nano,
                                          normalizeAddress(AgentWallet), expectedSender,
                                          payerAgent, payerVerified,
                                          buildInvoiceComment(invoiceId, payerAgent),
                                          strictSender)]
             /\ ret' = [MkRet(call, TRUE, "pending", NoProof, "", 0, NoMatch)
                         EXCEPT !.identity_level =
                           createIdentityLevel(expectedSender, payerVerified,
                                               payerAgent, strictSender)]

\* inv_check up to its first upstream request.
InvCheck(i) ==
  LET row == invoices[i]
      call == [tool |-> "inv_check", id |-> i,
               startExpired |-> row.exists /\ row.expires_at > 0 /\ now > row.expires_at,
               startStatus |-> IF row.exists THEN row.status ELSE "none",
               priorPaid |-> paidProof[i] # NoProof, crit |-> NoCrit]
      crit == [wallet |-> row.recipient_wallet,
               tag |-> <<"INV#">> \o i,
               minAmountNano |-> row.amount_nano,
               expectedSender |-> row.expected_sender_wallet,
               strictSender |-> row.strict_sender = 1,
               startMs |-> row.created_at,
               endMs |-> IF row.expires_at > 0 THEN row.expires_at ELSE now]
  IN /\ UNCHANGED <<now, chain, codes>>
     /\ IF ~row.exists
        THEN /\ ret' = MkRet(call, FALSE, "error", NoProof, "", 0, NoMatch)
             /\ UNCHANGED <<invoices, agents, transfers, wallet_sync, procs, paidProof, syncEndedAt>>
        ELSE IF IsPaid(row)
        THEN /\ ret' = MkRet(call, TRUE, row.status,
                             [event_id |-> row.tx_event_id,
                              sender |-> row.tx_sender_wallet,
                              amount_ton |-> row.tx_amount_ton, at |-> row.paid_at],
                             "", 0, NoMatch)
             /\ UNCHANGED <<invoices, agents, transfers, wallet_sync, procs, paidProof, syncEndedAt>>
        ELSE IF InvoiceExpired(row, now)
        THEN /\ invoices' = [invoices EXCEPT ![i].status = "expired"]
             /\ ret' = MkRet(call, TRUE, "expired", NoProof, "", 0, NoMatch)
             /\ UNCHANGED <<agents, transfers, wallet_sync, procs, paidProof, syncEndedAt>>
        ELSE IF row.strict_sender = 1 /\ row.expected_sender_wallet = ""
        THEN /\ ret' = MkRet(call, FALSE, "error", NoProof, "", 0, NoMatch)
             /\ UNCHANGED <<invoices, agents, transfers, wallet_sync, procs, paidProof, syncEndedAt>>
        ELSE FindStart([call EXCEPT !.crit = crit])

\* inv_receipt: the stored proof of a paid invoice.
InvReceipt(i) ==
  LET row == invoices[i]
      call == [tool |-> "inv_receipt", id |-> i, startExpired |-> FALSE,
               startStatus |-> IF row.exists THEN row.status ELSE "none",
               priorPaid |-> paidProof[i] # NoProof, crit |-> NoCrit]
  IN /\ UNCHANGED <<now, chain, codes, invoices, agents, transfers, wallet_sync, procs, paidProof, syncEndedAt>>
     /\ IF ~row.exists
        THEN ret' = MkRet(call, FALSE, "error", NoProof, "", 0, NoMatch)
        ELSE IF row.status # "paid"
        THEN ret' = MkRet(call, FALSE, "error", NoProof, "", 0, NoMatch)
        ELSE ret' = [MkRet(call, TRUE, row.status,
                           [event_id |-> row.tx_event_id, sender |-> row.tx_sender_wallet,
                            amount_ton |-> row.tx_amount_ton, at |-> row.paid_at],
                           "", 0, NoMatch)
                     EXCEPT !.identity_level = storedIdentityLevel(row)]

\* ------------------------------------------------------------ access policy

ToolNames ==
  {"inv_begin_verification", "inv_confirm_verification", "inv_register_agent",
   "inv_create", "inv_check", "inv_receipt"}

\* The configuration a call sees: context.config (telegram.admin_ids,
\* invoices.allowlist, invoices.access or .mode, the invoices.rate_limit_*
\* numbers) and the keys of the config file.  An unset number is 0, an
\* unset mode is "", an unset flag of the file is "null".
NoConfig ==
  [admin_ids |-> {}, ctx_allowlist |-> [isArray |-> FALSE, ids |-> {}], ctx_mode |-> "",
   invoices_allowlist |-> {}, invoices_admin_only |-> "null", invoices_open |-> "null",
   rate_limit_window_ms |-> 0, invoices_rate_limit_window_ms |-> 0,
   rate_limit_max |-> 0, invoices_rate_limit_max |-> 0,
   rate_limits |-> [t \in ToolNames |-> 0],
   invoices_rate_limit |-> [t \in ToolNames |-> 0]]

getAccessPolicy(cfg) ==
  LET allowlist == IF cfg.ctx_allowlist.isArray THEN cfg.ctx_allowlist.ids
                   ELSE cfg.invoices_allowlist
      mode == IF cfg.invoices_open = "true" \/ cfg.ctx_mode = "open" THEN "open"
              ELSE IF cfg.invoices_admin_only = "true" \/ cfg.ctx_mode = "admin" THEN "admin"
              ELSE IF allowlist # {} THEN "allowlist"
              ELSE IF cfg.admin_ids # {} THEN "admin"
              ELSE "open"
  IN [mode |-> mode, allowlist |-> allowlist, adminIds |-> cfg.admin_ids]

assertAccess(cfg, senderId) ==
  LET policy == getAccessPolicy(cfg)
  IN IF senderId.n = 0 \/ ~senderId.integer
     THEN [ok |-> FALSE, role |-> "", error |-> "senderId is missing"]
     ELSE IF senderId.n \in policy.adminIds
     THEN [ok |-> TRUE, role |-> "admin", error |-> ""]
     ELSE IF policy.mode = "open"
     THEN [ok |-> TRUE, role |-> "open", error |-> ""]
     ELSE IF policy.mode = "allowlist"
     THEN IF senderId.n \in policy.allowlist
          THEN [ok |-> TRUE, role |-> "allowlist", error |-> ""]
          ELSE [ok |-> FALSE, role |-> "", error |-> "Access denied"]
     ELSE [ok |-> FALSE, role |-> "", error |-> "Admin only"]

\* ------------------------------------------------------------- rate limiter

RATE_DEFAULT_WINDOW_MS == 60000
RATE_DEFAULT_MAX == 60
RATE_MIN_WINDOW_MS == 1000

RATE_TOOL_DEFAULTS ==
  [t \in ToolNames |->
     CASE t \in {"inv_begin_verification", "inv_confirm_verification",
                 "inv_register_agent"} -> 10
       [] t \in {"inv_create", "inv_check"} -> 20
       [] OTHER -> 30]

\* a || b || c on numbers.
FirstSet(a, b, c) == IF a # 0 THEN a ELSE IF b # 0 THEN b ELSE c

getRateLimitConfig(cfg, toolName) ==
  LET windowMs == FirstSet(cfg.rate_limit_window_ms, cfg.invoices_rate_limit_window_ms,
                           RATE_DEFAULT_WINDOW_MS)
      defaultMax == FirstSet(cfg.rate_limit_max, cfg.invoices_rate_limit_max,
                             RATE_DEFAULT_MAX)
      toolOverride == FirstSet(cfg.rate_limits[toolName], cfg.invoices_rate_limit[toolName],
                               FirstSet(RATE_TOOL_DEFAULTS[toolName], defaultMax, defaultMax))
  IN [windowMs |-> Max(RATE_MIN_WINDOW_MS, windowMs), max |-> Max(1, toolOverride)]

\* The name under which a tool's handler counts its calls: inv_register_agent
\* runs the handler of inv_begin_verification.
RateName(tool) == IF tool = "inv_register_agent" THEN "inv_begin_verification" ELSE tool

\* A limiter that lets a full window take one call more.
RateFullNever(row, cfg) == row.count > cfg.max

\* The test of checkRateLimit for a full window.
RateFull(row, cfg) == row.count >= cfg.max

\* checkRateLimit at time t on the rows of inv_rate_limits: its answer and
\* the rows it leaves.
checkRateLimit(table, senderId, toolName, cfg, t) ==
  LET key == <<toolName, senderId>>
      row == table[key]
  IN IF ~row.exists \/ t - row.window_start >= cfg.windowMs
     THEN [allowed |-> TRUE, retryAfterMs |-> 0, remaining |-> cfg.max - 1,
           table |-> [table EXCEPT ![key] = [exists |-> TRUE, window_start |-> t,
                                             count |-> 1]]]
     ELSE IF RateFull(row, cfg)
     THEN [allowed |-> FALSE, retryAfterMs |-> cfg.windowMs - (t - row.window_start),
           remaining |-> 0, table |-> table]
     ELSE [allowed |-> TRUE, retryAfterMs |-> 0, remaining |-> cfg.max - row.count - 1,
           table |-> [table EXCEPT ![key].count = row.count + 1]]

\* The callers: an admin candidate, an allowlist candidate, a stranger, a
\* call without a senderId and one whose senderId is no integer.
AdminId == 1
ListedId == 2
StrangerId == 3
Callers == {SenderId(AdminId), SenderId(ListedId), SenderId(StrangerId), SenderId(0), NotAnInteger}

RateKeys == {RateName(t) : t \in ToolNames} \X Callers

\* rateWindow records, per key, the call that opened the current window and
\* the calls the limiter was asked about since, that call included.
NoWindow == [opened |-> NULLI, calls |-> 0]

GatesInit(configs) ==
  /\ config \in configs
  /\ rate_limits = [k \in RateKeys |-> NoRow]
  /\ rateWindow = [k \in RateKeys |-> NoWindow]

\* The window opens with the first call of the key and with the first call
\* at or after its end.
CountCall(windows, key, windowMs, t) ==
  LET w == windows[key]
  IN IF w.opened = NULLI \/ t >= w.opened + windowMs
     THEN [windows EXCEPT ![key] = [opened |-> t, calls |-> 1]]
     ELSE [windows EXCEPT ![key].calls = @ + 1]

\* The calls one window is asked about: beyond the limit in the study of
\* the limiter, one allowed and one rejected in the study of the gates.
MaxCallsPerWindow == 3
MaxGateCalls == 2

GateRet(tool, senderId, status, retryAfterMs) ==
  [NoRet EXCEPT !.tool = tool, !.status = status, !.sender = senderId,
                !.retryAfterMs = retryAfterMs]

\* What a denied call has written by the time it returns: nothing, the
\* handler returns before checkRateLimit.  And a handler that counts first.
RowsCountedBeforeAccess(table, counted) == counted

RowsAfterDenial(table, counted) == table

\* A tool call from its first statement on: assertAccess, checkRateLimit,
\* then the handler's body.  A window is asked about maxCalls times at most.
Invoke(tool, senderId, maxCalls, Body) ==
  LET access == assertAccess(config, senderId)
      cfg == getRateLimitConfig(config, RateName(tool))
      key == <<RateName(tool), senderId>>
      rl == checkRateLimit(rate_limits, senderId, RateName(tool), cfg, now)
  IN /\ UNCHANGED <<config, lastRequestTime, requests, expiredReturned, retry>>
     /\ IF ~access.ok
        THEN /\ ret' = GateRet(tool, senderId, "denied", 0)
             /\ rate_limits' = RowsAfterDenial(rate_limits, rl.table)
             /\ UNCHANGED <<now, chain, codes, invoices, agents, transfers, wallet_sync, procs, paidProof, syncEndedAt, rateWindow>>
        ELSE /\ rateWindow[key].calls < maxCalls \/ now >= rateWindow[key].opened + cfg.windowMs
             /\ rate_limits' = rl.table
             /\ rateWindow' = CountCall(rateWindow, key, cfg.windowMs, now)
             /\ IF ~rl.allowed
                THEN /\ ret' = GateRet(tool, senderId, "rate_limited", rl.retryAfterMs)
                     /\ UNCHANGED <<now, chain, codes, invoices, agents, transfers, wallet_sync, procs, paidProof, syncEndedAt>>
                ELSE Body

\* A step that passes no gate and is outside tonapiFetchWithRetry.
Ungated == UNCHANGED <<config, rate_limits, rateWindow, lastRequestTime, requests, retry>>

\* Such a step when the 'expired' answers are not recorded.
NoGate == Ungated /\ UNCHANGED expiredReturned

\* ----------------------------------------------------------- upstream pacing

\* loadApiKey found no key.
API_KEY == FALSE
RATE_LIMIT_MS == IF API_KEY THEN 1000 ELSE 4000
FETCH_TIMEOUT_MS == 15000

\* Invocations that may be inside tonapiFetch at the same time.
Fetchers == 1..NProcs

\* tonapiFetchWithRetry as one invocation runs it: where it stands, the
\* failed attempts so far, the error status of each, lastErr (0 for null),
\* when its pause ends.
RetryIdle == [pc |-> "idle", attempt |-> 0, errors |-> <<>>, lastErr |-> 0, wakeAt |-> 0]

UpstreamInit ==
  /\ lastRequestTime = 0
  /\ requests = [k \in Fetchers |-> [pc |-> "idle", at |-> 0]]
  /\ retry = RetryIdle

InFlight == {k \in Fetchers : requests[k].pc = "in_flight"}

\* tonapiFetch up to its first await: the pause, or the request at once.
FetchCall(k) ==
  LET elapsed == now - lastRequestTime
  IN /\ requests[k].pc = "idle"
     /\ IF elapsed < RATE_LIMIT_MS
        THEN /\ requests' = [requests EXCEPT ![k] = [pc |-> "sleeping",
                                                      at |-> now + (RATE_LIMIT_MS - elapsed)]]
             /\ UNCHANGED lastRequestTime
        ELSE /\ lastRequestTime' = now
             /\ requests' = [requests EXCEPT ![k] = [pc |-> "in_flight", at |-> now]]

\* The pause is over: lastRequestTime = Date.now() and the request leaves.
FetchWake(k) ==
  /\ requests[k].pc = "sleeping"
  /\ now >= requests[k].at
  /\ lastRequestTime' = now
  /\ requests' = [requests EXCEPT ![k] = [pc |-> "in_flight", at |-> now]]

\* The request is answered, refused or cut off by its timeout.
FetchSettle(k) ==
  /\ requests[k].pc = "in_flight"
  /\ requests' = [requests EXCEPT ![k] = [pc |-> "idle", at |-> 0]]
  /\ UNCHANGED lastRequestTime

\* Date.now() moves on by ms, no request outliving its timeout.
Elapse(ms, until) ==
  /\ now + ms <= until
  /\ \A k \in InFlight : now + ms <= requests[k].at + FETCH_TIMEOUT_MS
  /\ now' = now + ms

\* --------------------------------------------------------- specifications

Senders == {W1, W2}
ClaimedWallets == {W1Friendly, W2}

Answers ==
  \/ NoGate /\ \E pr \in BagToSet(procs) : SyncNewRespond(pr)
  \/ NoGate /\ \E pr \in BagToSet(procs) : SyncOldRespond(pr)
  \/ NoGate /\ \E pr \in BagToSet(procs) : FetchFail(pr)

\* Invoices under concurrent callers: one strict invoice of 1.5 TON expected
\* from W1, with or without an expiry; W1 pays or underpays it, W2 pays it,
\* the agent wallet pays out.
StrictParams ==
  [invoice_id : {FirstInvoice}, amount_nano : {InvoiceNano}, payer_agent : {<<>>},
   payer_wallet : {W1Friendly}, strict_sender : {TRUE},
   allow_unverified_payer : {FALSE}, expires_in_minutes : {0, 1}]

PayTransfers == {<<W1, InvoiceNano>>, <<W1, VERIFY_DEFAULT_NANO>>, <<W2, InvoiceNano>>}

Init == InitStore /\ GatesInit({NoConfig}) /\ UpstreamInit

Next ==
  \/ Tick(MaxTicks) /\ NoGate
  \/ NoGate /\ \E t \in PayTransfers, c \in KnownComments : ChainTransfer(t[1], t[2], c)
  \/ ChainOutgoing /\ NoGate
  \/ Answers
  \/ NoGate /\ \E par \in StrictParams : InvCreate(par)
  \/ InvCheck(FirstInvoice) /\ NoGate
  \/ InvReceipt(FirstInvoice) /\ NoGate

Spec == Init /\ [][Next]_vars

\* Invoices under sequential callers: a tool is invoked only when no
\* invocation is in flight.  Two open invoices on the agent wallet, so that
\* checking one caches transfers tagged for the other.
OpenParams ==
  [invoice_id : InvoiceIds, amount_nano : {InvoiceNano}, payer_agent : {<<>>},
   payer_wallet : {""}, strict_sender : {FALSE},
   allow_unverified_payer : {FALSE}, expires_in_minutes : {0}]

NoneInFlight == procs = EmptyBag

NextSeq ==
  \/ Tick(MaxSeqTicks) /\ NoGate
  \/ NoGate /\ \E s \in Senders, n \in {InvoiceNano, LargerNano} :
                 ChainTransfer(s, n, buildInvoiceComment(FirstInvoice, <<>>))
  \/ Answers
  \/ NoneInFlight /\ NoGate /\ \E par \in OpenParams : InvCreate(par)
  \/ NoneInFlight /\ NoGate /\ \E i \in InvoiceIds : InvCheck(i)

SpecSeq == Init /\ [][NextSeq]_vars

\* Wallet verification under concurrent callers.
NextVerify ==
  \/ Tick(MaxTicks) /\ NoGate
  \/ NoGate /\ \E s \in Senders, c \in KnownComments :
                 ChainTransfer(s, VERIFY_DEFAULT_NANO, c)
  \/ Answers
  \/ NoGate /\ \E a \in AgentIds, w \in ClaimedWallets :
                 BeginVerification(a, w, VERIFY_TTL_MINUTES)
  \/ NoGate /\ \E a \in AgentIds : ConfirmVerification(a)

SpecVerify == Init /\ [][NextVerify]_vars

\* The cache matcher as a function of the cache: the cache is what
\* ingestEvents makes of a drawn page of events, the criteria are drawn by
\* the query.
MaxCached == 3

\* The k-th event of the page lands at the k-th tick.
MatcherEvent(k, kind) ==
  [event_id |-> k, lt |-> k, timestamp |-> k * (TickMs \div MS_PER_SECOND),
   actions |-> <<[type |-> "TonTransfer", sender |-> kind[1], recipient |-> AgentWallet,
                  amount |-> kind[2],
                  comment |-> buildInvoiceComment(FirstInvoice, <<>>)]>>]

MatcherKinds == Senders \X {VERIFY_DEFAULT_NANO, InvoiceNano}

MatcherPages ==
  UNION {{[k \in 1..n |-> MatcherEvent(k, f[k])] : f \in [1..n -> MatcherKinds]} :
           n \in 0..MaxCached}

MatcherCriteria ==
  [wallet : {normalizeAddress(AgentWallet)}, tag : {<<"INV#">> \o FirstInvoice},
   minAmountNano : {InvoiceNano}, expectedSender : {W1}, strictSender : BOOLEAN,
   startMs : {TickMs}, endMs : {TickMs * (MaxCached - 1), TickMs * MaxCached}]

InitMatcher ==
  /\ now = TickMs * (MaxCached + 1)
  /\ chain \in MatcherPages
  /\ codes = 0
  /\ invoices = [i \in InvoiceIds |-> NoRow]
  /\ agents = [a \in AgentIds |-> NoRow]
  /\ transfers = ingestEvents({}, normalizeAddress(AgentWallet), chain, now)
  /\ wallet_sync = [w \in SyncWallets |-> NoRow]
  /\ procs = EmptyBag
  /\ ret = NoRet
  /\ paidProof = [i \in InvoiceIds |-> NoProof]
  /\ syncEndedAt = [w \in SyncWallets |-> NULLI]
  /\ expiredReturned = {}
  /\ GatesInit({NoConfig})
  /\ UpstreamInit

RunQuery(c) ==
  /\ ret' = [NoRet EXCEPT !.tool = "queryCachedTransfer", !.crit = c,
                          !.match = Query(transfers, c)]
  /\ UNCHANGED <<now, chain, codes, invoices, agents, transfers, wallet_sync, procs,
                 paidProof, syncEndedAt>>

NextMatcher == NoGate /\ \E c \in MatcherCriteria : RunQuery(c)

SpecMatcher == InitMatcher /\ [][NextMatcher]_vars

\* The rate limiter in front of the tools: three keys under limits of one or
\* two calls per window, the clock moving in thirds and halves of a window.
RateStepMs == 30000
MaxRateSteps == 4

StoreIdle ==
  /\ ret' = NoRet
  /\ UNCHANGED <<chain, codes, invoices, agents, transfers, wallet_sync, procs, paidProof, syncEndedAt>>

RateConfigs ==
  {[NoConfig EXCEPT !.rate_limits = [t \in ToolNames |-> n], !.rate_limit_window_ms = w] :
     n \in {1, 2}, w \in {0, 3 * RateStepMs}}
    \cup {[NoConfig EXCEPT !.invoices_rate_limit = [t \in ToolNames |-> 2],
                           !.invoices_rate_limit_window_ms = RateStepMs]}

RateCallers == {SenderId(AdminId), SenderId(StrangerId)}

InitRate == InitStore /\ GatesInit(RateConfigs) /\ UpstreamInit

NextRate ==
  \/ /\ Elapse(RateStepMs, TickMs + RateStepMs * MaxRateSteps)
     /\ StoreIdle
     /\ NoGate
  \/ \E s \in RateCallers : Invoke("inv_receipt", s, MaxCallsPerWindow, InvReceipt(FirstInvoice))
  \/ Invoke("inv_check", SenderId(AdminId), MaxCallsPerWindow, InvCheck(FirstInvoice))

SpecRate == InitRate /\ [][NextRate]_vars

\* tonapiFetch under concurrent invocations: each may enter it, pause, send
\* its request and see it settled while the clock moves in halves of
\* RATE_LIMIT_MS.
FetchStepMs == 2000
MaxFetchSteps == 6

UpstreamOnly ==
  /\ ret' = NoRet
  /\ UNCHANGED <<now, chain, codes, invoices, agents, transfers, wallet_sync, procs, paidProof, syncEndedAt, config, rate_limits, rateWindow, expiredReturned, retry>>

NextFetch ==
  \/ /\ Elapse(FetchStepMs, TickMs + FetchStepMs * MaxFetchSteps)
     /\ StoreIdle
     /\ NoGate
  \/ UpstreamOnly /\ \E k \in Fetchers : FetchCall(k)
  \/ UpstreamOnly /\ \E k \in Fetchers : FetchWake(k)
  \/ UpstreamOnly /\ \E k \in Fetchers : FetchSettle(k)

SpecFetch == Init /\ [][NextFetch]_vars

\* assertAccess as a function of the configuration and the caller: the
\* configuration is drawn, every caller asks.
AccessConfigs ==
  {[NoConfig EXCEPT !.admin_ids = ad, !.ctx_allowlist = ca, !.ctx_mode = cm,
                    !.invoices_allowlist = fa, !.invoices_admin_only = ao,
                    !.invoices_open = op] :
     ad \in {{}, {AdminId}},
     ca \in {[isArray |-> FALSE, ids |-> {}], [isArray |-> TRUE, ids |-> {}],
             [isArray |-> TRUE, ids |-> {ListedId}]},
     cm \in {"", "open", "admin"},
     fa \in {{}, {ListedId}},
     ao \in {"null", "true", "false"},
     op \in {"null", "true", "false"}}

InitAccess == InitStore /\ GatesInit(AccessConfigs) /\ UpstreamInit

AssertAccess(senderId) ==
  LET access == assertAccess(config, senderId)
  IN /\ ret' = [NoRet EXCEPT !.tool = "assertAccess", !.success = access.ok,
                             !.status = IF access.ok THEN access.role ELSE access.error,
                             !.sender = senderId]
     /\ UNCHANGED <<now, chain, codes, invoices, agents, transfers, wallet_sync, procs, paidProof, syncEndedAt>>
     /\ NoGate

NextAccess == \E s \in Callers : AssertAccess(s)

SpecAccess == InitAccess /\ [][NextAccess]_vars

\* The six tools behind their gates, called by admins, listed callers,
\* strangers and callers without a proper senderId, one call per window for
\* each tool.  The chain holds no event, so a sync ends with its first page
\* and syncOlderEvents is never entered.
GateConfigs ==
  {[NoConfig EXCEPT !.admin_ids = {AdminId}, !.rate_limits = [t \in ToolNames |-> 1]],
   [NoConfig EXCEPT !.ctx_allowlist = [isArray |-> TRUE, ids |-> {ListedId}],
                    !.rate_limits = [t \in ToolNames |-> 1]]}

InitGate == InitStore /\ GatesInit(GateConfigs) /\ UpstreamInit

GateParams == {par \in StrictParams : par.expires_in_minutes = 0}

NextGate ==
  \/ \E s \in Callers : Invoke("inv_begin_verification", s, MaxGateCalls,
         \E a \in AgentIds : BeginVerification(a, W1Friendly, VERIFY_TTL_MINUTES))
  \/ \E s \in Callers : Invoke("inv_register_agent", s, MaxGateCalls,
         \E a \in AgentIds : BeginVerification(a, W1Friendly, VERIFY_TTL_MINUTES))
  \/ \E s \in Callers : Invoke("inv_confirm_verification", s, MaxGateCalls,
         \E a \in AgentIds : ConfirmVerification(a))
  \/ \E s \in Callers : Invoke("inv_create", s, MaxGateCalls,
         \E par \in GateParams : InvCreate(par))
  \/ \E s \in Callers : Invoke("inv_check", s, MaxGateCalls, InvCheck(FirstInvoice))
  \/ \E s \in Callers : Invoke("inv_receipt", s, MaxGateCalls, InvReceipt(FirstInvoice))
  \/ NoGate /\ \E pr \in BagToSet(procs) : SyncNewRespond(pr)
  \/ NoGate /\ \E pr \in BagToSet(procs) : FetchFail(pr)

SpecGate == InitGate /\ [][NextGate]_vars

\* Invoice creation beside wallet verification: the payer agent is unknown,
\* pending or verified for W1 when an invoice is created with every
\* combination of payer agent, payer wallet, strict_sender and
\* allow_unverified_payer.  Challenges are issued and confirmed one at a
\* time; invoices are created at any moment.  The clock stands, so no event
\* is later than a challenge and syncOlderEvents is never entered.
CreateParams ==
  [invoice_id : {FirstInvoice}, amount_nano : {InvoiceNano}, payer_agent : {<<>>} \cup AgentIds,
   payer_wallet : {"", W1Friendly, W2}, strict_sender : BOOLEAN,
   allow_unverified_payer : BOOLEAN, expires_in_minutes : {0}]

ChallengeTags == {agents[a].challenge_tag : a \in {b \in AgentIds : agents[b].exists}}

NextCreate ==
  \/ NoGate /\ \E c \in ChallengeTags : ChainTransfer(W1, VERIFY_DEFAULT_NANO, c)
  \/ NoGate /\ \E pr \in BagToSet(procs) : SyncNewRespond(pr)
  \/ NoGate /\ \E pr \in BagToSet(procs) : FetchFail(pr)
  \/ NoneInFlight /\ NoGate
       /\ \E a \in AgentIds : BeginVerification(a, W1Friendly, VERIFY_TTL_MINUTES)
  \/ NoneInFlight /\ NoGate /\ \E a \in AgentIds : ConfirmVerification(a)
  \/ NoGate /\ \E par \in CreateParams : InvCreate(par)

SpecCreate == Init /\ [][NextCreate]_vars

\* tonapiFetchWithRetry as one invocation runs it through tonapiFetch, the
\* upstream answering each attempt with success, an HTTP error status or no
\* status (a timeout or network error); the clock moves in steps of the
\* first pause.
MAX_ATTEMPTS == 3
RETRY_BASE_DELAY_MS == 300
RetryStepMs == 300
MaxRetrySteps == 30

\* The error statuses upstream answers with; NULLI is an error without one.
ErrorStatuses == {400, 404, 429, 500, 501, 503, 522, NULLI}

\* A loop that retries whatever the error.
RetryableAlways(status) == TRUE

\* The retryable test of tonapiFetchWithRetry.
Retryable(status) == status \in {429, 500, 502, 503, 504, 522} \/ status = NULLI

\* The tonapiFetch state the invocation uses.
RetryFetcher == 1

RetryOnly ==
  /\ ret' = NoRet
  /\ UNCHANGED <<now, chain, codes, invoices, agents, transfers, wallet_sync, procs, paidProof, syncEndedAt, config, rate_limits, rateWindow, expiredReturned>>

\* tonapiFetchWithRetry is called: the first attempt enters tonapiFetch.
RetryCall ==
  /\ retry.pc = "idle"
  /\ FetchCall(RetryFetcher)
  /\ retry' = [retry EXCEPT !.pc = "fetching"]

\* The attempt is answered: the loop returns the answer.
AttemptSucceeds ==
  /\ retry.pc = "fetching"
  /\ FetchSettle(RetryFetcher)
  /\ retry' = [retry EXCEPT !.pc = "returned"]

\* The attempt fails: the catch block counts it and pauses, or leaves the
\* loop to throw lastErr.
AttemptFails(status) ==
  LET attempt == retry.attempt + 1
      errors == Append(retry.errors, status)
      delay == RETRY_BASE_DELAY_MS * 2 ^ (attempt - 1)
  IN /\ retry.pc = "fetching"
     /\ FetchSettle(RetryFetcher)
     /\ IF ~Retryable(status) \/ attempt >= MAX_ATTEMPTS
        THEN retry' = [pc |-> "thrown", attempt |-> attempt, errors |-> errors,
                       lastErr |-> status, wakeAt |-> 0]
        ELSE retry' = [pc |-> "backoff", attempt |-> attempt, errors |-> errors,
                       lastErr |-> status, wakeAt |-> now + delay]

\* The pause is over: the next attempt enters tonapiFetch.
BackoffEnds ==
  /\ retry.pc = "backoff"
  /\ now >= retry.wakeAt
  /\ FetchCall(RetryFetcher)
  /\ retry' = [retry EXCEPT !.pc = "fetching", !.wakeAt = 0]

NextRetry ==
  \/ /\ Elapse(RetryStepMs, TickMs + RetryStepMs * MaxRetrySteps)
     /\ StoreIdle
     /\ NoGate
  \/ RetryOnly /\ RetryCall
  \/ UpstreamOnly /\ FetchWake(RetryFetcher)
  \/ RetryOnly /\ AttemptSucceeds
  \/ RetryOnly /\ \E status \in ErrorStatuses : AttemptFails(status)
  \/ RetryOnly /\ BackoffEnds

SpecRetry == Init /\ [][NextRetry]_vars

\* Wallet verification with challenges that expire: a challenge of one
\* minute is over at the next tick, one of VERIFY_TTL_MINUTES is not.  The
\* challenges a confirm has answered 'expired' for are recorded by tag.
ShortTtlMinutes == 1

RecordExpired ==
  expiredReturned' =
    IF ret'.tool = "inv_confirm_verification" /\ ret'.status = "expired"
    THEN expiredReturned \cup {agents[ret'.id].challenge_tag}
    ELSE expiredReturned

Recording == Ungated /\ RecordExpired

NextExpiry ==
  \/ Tick(MaxTicks) /\ Recording
  \/ (\E s \in Senders, c \in ChallengeTags : ChainTransfer(s, VERIFY_DEFAULT_NANO, c))
       /\ Recording
  \/ (\E pr \in BagToSet(procs) : SyncNewRespond(pr)) /\ Recording
  \/ (\E pr \in BagToSet(procs) : SyncOldRespond(pr)) /\ Recording
  \/ (\E pr \in BagToSet(procs) : FetchFail(pr)) /\ Recording
  \/ (\E a \in AgentIds, ttl \in {ShortTtlMinutes, VERIFY_TTL_MINUTES} :
         BeginVerification(a, W1Friendly, ttl)) /\ Recording
  \/ (\E a \in AgentIds : ConfirmVerification(a)) /\ Recording

SpecExpiry == Init /\ [][NextExpiry]_vars

\* Catching up on a busy wallet: one open invoice without expiry; its payment
\* and transfers that are not for it land before the wallet is first
\* synced; inv_check is then invoked again and again, one call at a time,
\* each later than SYNC_MIN_INTERVAL_MS after the sync before it, and
\* upstream answers every request.
MaxDeepEvents == 8
MaxCatchUpTicks == 3

CatchUpParams == {par \in OpenParams : par.invoice_id = FirstInvoice}

\* A transfer to the agent wallet lands: the invoice's payment (once) or a
\* transfer without a comment.
DeepTransfer(maxEvents, sender, amount, comment) ==
  /\ Len(chain) < maxEvents
  /\ comment # <<>> => \A k \in 1..Len(chain) : chain[k].actions[1].comment # comment
  /\ chain' = Append(chain, ChainEvent(<<[type |-> "TonTransfer", sender |-> sender,
                                         recipient |-> AgentWallet, amount |-> amount,
                                         comment |-> comment]>>))
  /\ ret' = NoRet
  /\ UNCHANGED <<now, codes, invoices, agents, transfers, wallet_sync, procs, paidProof, syncEndedAt>>

NeverSynced == \A w \in SyncWallets : ~wallet_sync[w].exists

Spaced ==
  \A w \in SyncWallets :
    syncEndedAt[w] = NULLI \/ now > syncEndedAt[w] + SYNC_MIN_INTERVAL_MS

NextCatchUp ==
  \/ Tick(MaxCatchUpTicks) /\ NoGate
  \/ NoneInFlight /\ NeverSynced /\ invoices[FirstInvoice].exists /\ NoGate
       /\ \E c \in KnownComments \cup {<<>>} :
            DeepTransfer(MaxDeepEvents, W1, InvoiceNano, c)
  \/ NoGate /\ \E pr \in BagToSet(procs) : SyncNewRespond(pr)
  \/ NoGate /\ \E pr \in BagToSet(procs) : SyncOldRespond(pr)
  \/ NoneInFlight /\ NoGate /\ \E par \in CatchUpParams : InvCreate(par)
  \/ NoneInFlight /\ Spaced /\ NoGate /\ InvCheck(FirstInvoice)

SpecCatchUp == Init /\ [][NextCatchUp]_vars

\* Paging through a busy wallet: one open invoice, created at the start,
\* that is never paid; transfers without a comment land later, between the
\* checks, enough of them for a forward sync of EVENT_MAX_PAGES_NEW full
\* pages and a backward sync of EVENT_MAX_PAGES_OLD; inv_check is invoked
\* one call at a time, outside the throttle window, and a request may fail.
MaxPagedEvents == 9

NextPages ==
  \/ Tick(MaxSeqTicks) /\ NoGate
  \/ NoneInFlight /\ invoices[FirstInvoice].exists /\ NoGate
       /\ now > invoices[FirstInvoice].created_at
       /\ DeepTransfer(MaxPagedEvents, W1, InvoiceNano, <<>>)
  \/ NoGate /\ \E pr \in BagToSet(procs) : SyncNewRespond(pr)
  \/ NoGate /\ \E pr \in BagToSet(procs) : SyncOldRespond(pr)
  \/ NoGate /\ \E pr \in BagToSet(procs) : FetchFail(pr)
  \/ NoneInFlight /\ now = TickMs /\ NoGate /\ \E par \in CatchUpParams : InvCreate(par)
  \/ NoneInFlight /\ Spaced /\ NoGate /\ InvCheck(FirstInvoice)

SpecPages == Init /\ [][NextPages]_vars

\* ------------------------------------------------------------- properties

\* The cached rows that satisfy every constraint of the criteria c.
Qualifying(cache, c) ==
  {r \in cache : /\ r.wallet = c.wallet
                 /\ r.comment_tag = c.tag
                 /\ r.amount_nano >= c.minAmountNano
                 /\ r.timestamp >= c.startMs
                 /\ r.timestamp <= c.endMs
                 /\ c.strictSender => sameAddress(r.sender, c.expectedSender)}

\* The criteria by which inv_check searches for the stored invoice i.
InvoiceCriteria(i) ==
  [wallet |-> invoices[i].recipient_wallet, tag |-> <<"INV#">> \o i,
   minAmountNano |-> invoices[i].amount_nano,
   expectedSender |-> invoices[i].expected_sender_wallet,
   strictSender |-> invoices[i].strict_sender = 1,
   startMs |-> invoices[i].created_at,
   endMs |-> IF invoices[i].expires_at > 0 THEN invoices[i].expires_at ELSE now]

\* C1: once an invoice row has status 'paid', no step of any invocation
\* changes its status, tx_event_id, tx_sender_wallet, tx_amount_nano or
\* paid_at.
C1_PaidImmutable ==
  [][\A i \in InvoiceIds :
       (invoices[i].exists /\ invoices[i].status = "paid")
         => /\ invoices'[i].status = "paid"
            /\ invoices'[i].tx_event_id = invoices[i].tx_event_id
            /\ invoices'[i].tx_sender_wallet = invoices[i].tx_sender_wallet
            /\ invoices'[i].tx_amount_nano = invoices[i].tx_amount_nano
            /\ invoices'[i].paid_at = invoices[i].paid_at]_vars

\* C2: under sequential callers, an inv_check begun after an inv_check has
\* returned 'paid' for the invoice returns 'paid' with the tx_event_id,
\* tx_sender_wallet and tx_amount_ton first returned, issues no upstream
\* request and changes neither the invoice rows nor the cache nor the
\* watermark.
C2_SequentialTerminality ==
  [][(ret'.tool = "inv_check" /\ ret'.priorPaid)
       => /\ ret'.status = "paid"
          /\ ret'.proof.event_id = paidProof[ret'.id].event_id
          /\ ret'.proof.sender = paidProof[ret'.id].sender
          /\ ret'.proof.amount_ton = paidProof[ret'.id].amount_ton
          /\ ret'.fetches = 0
          /\ invoices' = invoices
          /\ transfers' = transfers
          /\ wallet_sync' = wallet_sync
          /\ procs' = procs]_vars

\* C2's case: a re-check of a paid invoice has returned while the cache holds
\* another qualifying transfer that sorts before the stored one.
C2_RecheckWithEarlierTransferCached ==
  /\ ret.tool = "inv_check"
  /\ ret.priorPaid
  /\ ret.status = "paid"
  /\ \E r \in Qualifying(transfers, InvoiceCriteria(ret.id)) :
       \E m \in transfers :
         /\ m.event_id = ret.proof.event_id
         /\ r # m
         /\ RowBefore(r, m)

\* C3: a verified agent row stays verified and keeps its verified_at and
\* proof fields, whatever tool is invoked.
C3_VerifiedNeverRegresses ==
  [][\A a \in AgentIds :
       (agents[a].exists /\ agents[a].status = "verified")
         => /\ agents'[a].status = "verified"
            /\ agents'[a].verified_at = agents[a].verified_at
            /\ agents'[a].proof_event_id = agents[a].proof_event_id
            /\ agents'[a].proof_sender_wallet = agents[a].proof_sender_wallet]_vars

\* C4: in every state, a verified agent row's proof_sender_wallet is the
\* row's wallet_address, and its proof transfer carries the row's current
\* challenge_tag.
C4_VerifiedProofIsOfClaimedWallet ==
  \A a \in AgentIds :
    (agents[a].exists /\ agents[a].status = "verified")
      => /\ sameAddress(agents[a].proof_sender_wallet, agents[a].wallet_address)
         /\ \E r \in transfers : /\ r.event_id = agents[a].proof_event_id
                                 /\ r.comment_tag = agents[a].challenge_tag

\* C5: every transfer findTransferWithSync answers is a cached row of the
\* queried wallet and tag, of at least the minimum amount, inside the window
\* and, in strict mode, from the expected sender; and no invoice is paid by
\* less than its amount.
C5_MatcherSound ==
  /\ ret.match # NoMatch
       => /\ ret.match \in transfers
          /\ ret.match \in Qualifying(transfers, ret.crit)
  /\ \A i \in InvoiceIds :
       (invoices[i].exists /\ invoices[i].status = "paid")
         => invoices[i].tx_amount_nano >= invoices[i].amount_nano

\* C5's case: a transfer was answered after a sync while the cache holds an
\* underpaid transfer of the same tag inside the window.
C5_MatchBesideUnderpaid ==
  /\ ret.match # NoMatch
  /\ ret.source \in {"sync_new", "sync_old"}
  /\ \E r \in transfers : /\ r.comment_tag = ret.crit.tag
                          /\ r.timestamp >= ret.crit.startMs
                          /\ r.timestamp <= ret.crit.endMs
                          /\ r.amount_nano < ret.crit.minAmountNano

\* C6: whenever the cache holds a row satisfying the criteria,
\* queryCachedTransfer returns a satisfying row of the smallest timestamp,
\* however many other rows of the tag are cached.
C6_MatcherComplete ==
  (ret.tool = "queryCachedTransfer" /\ Qualifying(transfers, ret.crit) # {})
    => /\ ret.match \in Qualifying(transfers, ret.crit)
       /\ \A r \in Qualifying(transfers, ret.crit) : ret.match.timestamp <= r.timestamp

\* C7: an inv_check begun after expires_at on an invoice that is not paid
\* returns 'expired', leaves the row 'expired', issues no upstream request
\* and answers no transfer.
C7_ExpiryWins ==
  (ret.tool = "inv_check" /\ ret.startExpired /\ ret.startStatus \in {"pending", "expired"})
    => /\ ret.status = "expired"
       /\ invoices[ret.id].status = "expired"
       /\ ret.fetches = 0
       /\ ret.match = NoMatch
       /\ ret.proof = NoProof

\* C7's case: 'expired' was returned while the cache holds a qualifying
\* transfer inside the invoice window.
C7_ExpiredDespiteCachedPayment ==
  /\ ret.tool = "inv_check"
  /\ ret.startExpired
  /\ ret.status = "expired"
  /\ Qualifying(transfers, InvoiceCriteria(ret.id)) # {}

\* C8: the only invoice status changes are pending->paid and
\* pending->expired.
C8_ExpiredTerminal ==
  [][\A i \in InvoiceIds :
       invoices[i].exists
         => \/ invoices'[i].status = invoices[i].status
            \/ /\ invoices[i].status = "pending"
               /\ invoices'[i].status \in {"paid", "expired"}]_vars

\* C9: no step removes or alters a cached row, and the cache holds one row
\* per (wallet, event id, action index).
C9_IngestIdempotent ==
  [][/\ transfers \subseteq transfers'
     /\ \A r, q \in transfers' : RowKey(r) = RowKey(q) => r = q]_vars

\* C9's case: two interleaved syncs have both been answered the page of an
\* event that was cached at an earlier time.
C9_SamePageIngestedTwice ==
  \E pr \in BagToSet(procs) :
    /\ CopiesIn(pr, procs) = 2
    /\ pr.anyEvents > 0
    /\ \E r \in transfers : r.lt = pr.cursor /\ r.inserted_at < now

\* C10: no step lowers a stored max_lt or max_ts or raises a stored min_lt
\* or min_ts of a wallet's watermark.
C10_WatermarkWidens ==
  [][\A w \in SyncWallets :
       wallet_sync[w].exists
         => /\ wallet_sync'[w].max_lt >= wallet_sync[w].max_lt
            /\ wallet_sync'[w].max_ts >= wallet_sync[w].max_ts
            /\ wallet_sync[w].min_lt = NULLI \/ wallet_sync'[w].min_lt <= wallet_sync[w].min_lt
            /\ wallet_sync[w].min_ts = NULLI \/ wallet_sync'[w].min_ts <= wallet_sync[w].min_ts]_vars

\* The limits of the key k under the configuration in force.
LimitsOf(k) == getRateLimitConfig(config, k[1])

\* C11: per (tool, caller) the limiter keeps a fixed window of w ms and N
\* calls.  The call that opens a window (the key's first call, or its first
\* call at or after the end of the window before) is allowed and stores
\* window_start = now, count = 1; of the later calls before the window's end
\* the first N - 1 are allowed and counted, every further one is rejected
\* with 0 < retryAfterMs <= w and leaves window_start and count as they
\* were; and no stored count exceeds N.
C11_FixedWindow ==
  [][\A k \in RateKeys :
       LET w == LimitsOf(k).windowMs
           N == LimitsOf(k).max
           before == rateWindow[k]
           after == rateWindow'[k]
           row == rate_limits'[k]
           allowed == ret'.status \notin {"rate_limited", "denied"}
       IN /\ row.exists => row.count <= N
          /\ after # before =>
               IF after.calls = 1
               THEN allowed /\ row = [exists |-> TRUE, window_start |-> now', count |-> 1]
               ELSE IF after.calls <= N
               THEN allowed /\ row = [exists |-> TRUE, window_start |-> before.opened,
                                      count |-> after.calls]
               ELSE /\ ~allowed
                    /\ ret'.retryAfterMs > 0
                    /\ ret'.retryAfterMs <= w
                    /\ row = rate_limits[k]]_vars

\* C11 witness: a call is rejected part-way through a window that is not the
\* key's first one.
C11_RejectedInLaterWindow ==
  \E k \in RateKeys :
    /\ ret.status = "rate_limited"
    /\ ret.tool = k[1]
    /\ ret.sender = k[2]
    /\ rate_limits[k].window_start > TickMs
    /\ ret.retryAfterMs < LimitsOf(k).windowMs
    /\ rateWindow[k].calls > LimitsOf(k).max

\* The invocations whose network sync of the wallet is in flight.
SyncsInFlight(wallet) ==
  {pr \in BagToSet(procs) : pr.call.crit.wallet = wallet}

\* C12: no two syncs of the same wallet are in flight at the same time: of
\* the findTransferWithSync calls of one wallet that miss the cache, at most
\* one is awaiting upstream events.
C12_OneSyncPerWallet ==
  \A w \in SyncWallets :
    \A pr \in SyncsInFlight(w) :
      /\ CopiesIn(pr, procs) = 1
      /\ SyncsInFlight(w) = {pr}

\* A findTransferWithSync call for the wallet misses the cache, passes the
\* throttle test and issues the first request of syncNewEvents in this step.
StartsSync(wallet) ==
  \E pr \in BagToSet(procs') :
    /\ pr.call.crit.wallet = wallet
    /\ pr.pc = "sync_new" /\ pr.page = 0 /\ pr.fetches = 1
    /\ CopiesIn(pr, procs') > CopiesIn(pr, procs)

\* C13: after a network sync of wallet W ended at time t, with events,
\* without events or by an error, no findTransferWithSync call for W that
\* starts before t + SYNC_MIN_INTERVAL_MS issues an upstream request: on a
\* cache miss it is answered 'throttled'.
C13_ThrottledAfterSync ==
  [][\A w \in SyncWallets :
       (syncEndedAt[w] # NULLI /\ now < syncEndedAt[w] + SYNC_MIN_INTERVAL_MS)
         => ~StartsSync(w)]_vars

\* An upstream request leaves in this step.
RequestStarts ==
  \E k \in Fetchers : requests'[k].pc = "in_flight" /\ requests[k].pc # "in_flight"

\* C14: upstream requests are serialized and spaced: at most one request of
\* tonapiFetch is in flight at any time, and a request starts no sooner than
\* RATE_LIMIT_MS after the request before it started.
C14_SerializedAndSpaced ==
  [][/\ Cardinality(InFlight') <= 1
     /\ RequestStarts => now' - lastRequestTime >= RATE_LIMIT_MS]_vars

\* The invocation that returned asked upstream and findTransferWithSync gave
\* it no answer: tonapiFetchWithRetry ran out of attempts.
UpstreamFailed == ret.fetches > 0 /\ ret.source = ""

\* C15: when every upstream attempt fails during inv_check on a pending,
\* unexpired invoice or during inv_confirm_verification on a pending
\* challenge, the tool returns success with a transient status
\* ('not_found', 'pending' or 'throttled'), never success = false.
C15_UpstreamFailureIsSoft ==
  (/\ ret.tool \in {"inv_check", "inv_confirm_verification"}
   /\ ret.startStatus = "pending"
   /\ ~ret.startExpired
   /\ UpstreamFailed)
    => ret.success /\ ret.status \in {"not_found", "pending", "throttled"}

\* The allowlist the configuration gives: the one of context.config when it
\* is a list, else the one of the config file.
ConfiguredAllowlist ==
  IF config.ctx_allowlist.isArray THEN config.ctx_allowlist.ids
  ELSE config.invoices_allowlist

\* assertAccess has just answered a caller with a proper senderId.
AnsweredCaller ==
  ret.tool = "assertAccess" /\ ret.sender.integer /\ ret.sender.n # 0

\* C16: a caller of the admin list is permitted under every configuration;
\* any other caller, when an allowlist is configured, is permitted exactly
\* when it is in the allowlist, open access configured beside it or not.
C16_ResolutionOrder ==
  AnsweredCaller =>
    IF ret.sender.n \in config.admin_ids THEN ret.success
    ELSE ConfiguredAllowlist # {} =>
           (ret.success <=> ret.sender.n \in ConfiguredAllowlist)

\* No admin ids, no allowlist, no open or admin mode in context.config or in
\* the config file.
NothingConfigured ==
  /\ config.admin_ids = {}
  /\ ConfiguredAllowlist = {}
  /\ config.ctx_mode = ""
  /\ config.invoices_admin_only # "true"
  /\ config.invoices_open # "true"

\* C17: when nothing is configured every call is denied, whoever calls.
C17_DeniedWhenNothingConfigured ==
  (ret.tool = "assertAccess" /\ NothingConfigured) => ~ret.success

\* C18: a call the access policy denies, one without a senderId or with a
\* senderId that is no integer included, has no effect: it leaves the
\* rate-limit rows, the agent rows, the invoice rows, the cached transfers and
\* the wallet watermarks as they were and issues no upstream request,
\* whichever tool is called.
C18_DeniedCallHasNoEffect ==
  [][ret'.status = "denied" =>
       /\ ret'.tool \in ToolNames
       /\ ~ret'.success
       /\ UNCHANGED <<rate_limits, agents, invoices, transfers, wallet_sync>>
       /\ UNCHANGED <<procs, requests, lastRequestTime, codes>>]_vars

\* C18 witness: a stranger's inv_check of a stored, pending invoice is denied
\* while another caller's window for the tool is open.
C18_StrangerDeniedCheck ==
  /\ ret.status = "denied"
  /\ ret.tool = "inv_check"
  /\ ret.sender = SenderId(StrangerId)
  /\ invoices[FirstInvoice].exists
  /\ invoices[FirstInvoice].status = "pending"
  /\ \E k \in RateKeys : rate_limits[k].exists

\* The tx fields of a proof.
TxFields(proof) ==
  [event_id |-> proof.event_id, sender |-> proof.sender, amount_ton |-> proof.amount_ton]

\* C19: inv_receipt succeeds exactly when the invoice exists and its stored
\* status is 'paid'; it changes no invoice, agent, transfer or watermark row
\* and issues no upstream request; and the tx fields it returns are the ones
\* stored when the invoice was marked paid.
C19_ReceiptIsProjection ==
  [][ret'.tool = "inv_receipt" =>
       LET row == invoices[ret'.id]
       IN /\ ret'.success <=> (row.exists /\ row.status = "paid")
          /\ UNCHANGED <<invoices, agents, transfers, wallet_sync, procs>>
          /\ ret'.success => TxFields(ret'.proof) = TxFields(paidProof[ret'.id])]_vars

\* The payer agent named by par is verified for a wallet.
PayerVerified(par) ==
  /\ par.payer_agent \in AgentIds
  /\ agents[par.payer_agent].exists
  /\ agents[par.payer_agent].status = "verified"
  /\ agents[par.payer_agent].wallet_address # ""

\* This step stores the invoice par names.
Creates(par) == ~invoices[par.invoice_id].exists /\ invoices'[par.invoice_id].exists

\* What C20 says of the row an inv_create stores: a strict row names an
\* expected sender, the payer wallet given or the wallet of the payer agent
\* verified at that time, and payer_agent_verified = 1 only beside a
\* verified payer agent.
StoredRowSound(par) ==
  LET row == invoices'[par.invoice_id]
  IN Creates(par) =>
       /\ row.strict_sender = 1 =>
            /\ row.expected_sender_wallet # ""
            /\ \/ row.expected_sender_wallet = normalizeAddress(par.payer_wallet)
               \/ /\ PayerVerified(par)
                  /\ row.expected_sender_wallet =
                       normalizeAddress(agents[par.payer_agent].wallet_address)
       /\ row.payer_agent_verified = 1 => PayerVerified(par)

\* The call asks for strict mode and gives neither a payer wallet nor a
\* verified payer agent.
StrictWithoutSender(par) ==
  par.strict_sender /\ par.payer_wallet = "" /\ ~PayerVerified(par)

\* The call names an unverified payer agent and allows it.
UnverifiedAllowed(par) ==
  par.payer_agent # <<>> /\ ~PayerVerified(par) /\ par.allow_unverified_payer

Rejected == ~ret'.success /\ invoices' = invoices

\* C20 as stated: every strict row stored has an expected sender (the given
\* payer wallet or the wallet of the payer agent verified at creation),
\* payer_agent_verified = 1 is stored only for a verified payer agent, and
\* every inv_create in strict mode with neither a payer wallet nor a
\* verified payer agent is rejected and stores no row.
C20_StrictNeedsSender ==
  [][ret'.tool = "inv_create" =>
       \A par \in CreateParams :
         InvCreate(par) =>
           /\ StoredRowSound(par)
           /\ StrictWithoutSender(par) => Rejected]_vars

\* C20 amended: as above, but an inv_create in strict mode with neither a
\* payer wallet nor a verified payer agent is rejected unless it names an
\* unverified payer agent with allow_unverified_payer set; that call is
\* served non-strict: the row it stores has strict_sender = 0.
C20_StrictNeedsSenderUnlessAllowed ==
  [][ret'.tool = "inv_create" =>
       \A par \in CreateParams :
         InvCreate(par) =>
           /\ StoredRowSound(par)
           /\ (StrictWithoutSender(par) /\ ~UnverifiedAllowed(par)) => Rejected
           /\ (StrictWithoutSender(par) /\ UnverifiedAllowed(par) /\ Creates(par))
                => invoices'[par.invoice_id].strict_sender = 0]_vars

\* C20 witness: inv_create has just stored a strict invoice whose expected
\* sender is the wallet of its verified payer agent.
C20_StrictInvoiceOfVerifiedAgent ==
  /\ ret.tool = "inv_create"
  /\ ret.success
  /\ invoices[ret.id].exists
  /\ invoices[ret.id].strict_sender = 1
  /\ invoices[ret.id].payer_agent \in AgentIds
  /\ invoices[ret.id].payer_agent_verified = 1
  /\ invoices[ret.id].expected_sender_wallet
       = normalizeAddress(agents[invoices[ret.id].payer_agent].wallet_address)

\* ------------------------------------------------------- invoice tags
\*
\* Invoices with caller-supplied ids, one of them holding the "|" that
\* commentTag cuts at; payers send exactly the comment they were shown.
PipedInvoice == <<"i1", "|", "x">>
TagInvoiceIds == {FirstInvoice, PipedInvoice}

InitTags ==
  /\ now = TickMs
  /\ chain = <<>>
  /\ codes = 0
  /\ invoices = [i \in TagInvoiceIds |-> NoRow]
  /\ agents = [a \in AgentIds |-> NoRow]
  /\ transfers = {}
  /\ wallet_sync = [w \in SyncWallets |-> NoRow]
  /\ procs = EmptyBag
  /\ ret = NoRet
  /\ paidProof = [i \in TagInvoiceIds |-> NoProof]
  /\ syncEndedAt = [w \in SyncWallets |-> NULLI]
  /\ expiredReturned = {}
  /\ GatesInit({NoConfig})
  /\ UpstreamInit

TagParams ==
  [invoice_id : TagInvoiceIds, amount_nano : {InvoiceNano}, payer_agent : {<<>>},
   payer_wallet : {""}, strict_sender : {FALSE},
   allow_unverified_payer : {FALSE}, expires_in_minutes : {0}]

NextTags ==
  \/ Tick(MaxSeqTicks) /\ NoGate
  \/ NoGate /\ \E i \in TagInvoiceIds :
                 invoices[i].exists /\ ChainTransfer(W1, InvoiceNano, invoices[i].comment)
  \/ Answers
  \/ NoneInFlight /\ NoGate /\ \E par \in TagParams : InvCreate(par)
  \/ NoneInFlight /\ NoGate /\ \E i \in TagInvoiceIds : InvCheck(i)

SpecTags == InitTags /\ [][NextTags]_vars

\* ---------------------------------------------------- identity level
\*
\* An invoice of every kind of SpecCreate is created, paid by W1 with the
\* comment shown, checked and its receipt read, one call at a time.
NextIdentity ==
  \/ NoGate /\ \E c \in KnownComments : ChainTransfer(W1, InvoiceNano, c)
  \/ NoGate /\ \E pr \in BagToSet(procs) : SyncNewRespond(pr)
  \/ NoGate /\ \E pr \in BagToSet(procs) : FetchFail(pr)
  \/ NoneInFlight /\ NoGate
       /\ \E a \in AgentIds : BeginVerification(a, W1Friendly, VERIFY_TTL_MINUTES)
  \/ NoneInFlight /\ NoGate /\ \E a \in AgentIds : ConfirmVerification(a)
  \/ NoneInFlight /\ NoGate /\ \E par \in CreateParams : InvCreate(par)
  \/ NoneInFlight /\ NoGate /\ InvCheck(FirstInvoice)
  \/ NoneInFlight /\ NoGate /\ InvReceipt(FirstInvoice)

SpecIdentity == Init /\ [][NextIdentity]_vars

\* C21: invoice_id is unique: an inv_create whose invoice_id names a stored
\* invoice returns success = false and leaves every invoice row, the stored
\* one with its status and tx fields included, as it was, whatever other
\* invocations are in flight.
C21_DuplicateIdRejected ==
  [][(ret'.tool = "inv_create" /\ invoices[ret'.id].exists)
       => /\ ~ret'.success
          /\ invoices' = invoices
          /\ paidProof' = paidProof]_vars

\* C21 witness: an inv_create naming a paid invoice was rejected while an
\* inv_check of that invoice is awaiting upstream events.
C21_DuplicateOfPaidRejected ==
  /\ ret.tool = "inv_create"
  /\ ~ret.success
  /\ ret.startStatus = "paid"
  /\ invoices[ret.id].status = "paid"
  /\ invoices[ret.id].tx_event_id # NULLI
  /\ \E pr \in BagToSet(procs) : pr.call.tool = "inv_check" /\ pr.call.id = ret.id

\* C22: one live challenge per agent.  An inv_begin_verification for an
\* agent whose challenge is pending leaves the row pending with a new tag,
\* the amount, wallet and window of the new challenge and no proof; and an
\* agent becomes verified only by a transfer that carries the tag its row
\* holds at that moment, never by one tagged for an earlier challenge,
\* whatever confirm calls are in flight.
C22_OneLiveChallenge ==
  [][\A a \in AgentIds :
       /\ (ret'.tool = "inv_begin_verification" /\ ret'.id = a
              /\ ret'.startStatus = "pending")
            => /\ agents'[a].status = "pending"
               /\ agents'[a].challenge_tag # agents[a].challenge_tag
               /\ agents'[a].challenge_created_at = now
               /\ agents'[a].challenge_expires_at > now
               /\ agents'[a].proof_event_id = NULLI
       /\ (agents[a].exists /\ agents[a].status = "pending"
              /\ agents'[a].status = "verified")
            => ret'.match.comment_tag = agents[a].challenge_tag]_vars

\* C23: challenge expiry is terminal.  An inv_confirm_verification started
\* after challenge_expires_at on an agent that is not verified returns
\* 'expired', issues no upstream request and changes no row, qualifying
\* transfer cached or not; and once a confirm has returned 'expired' for a
\* challenge, no confirm call for that challenge makes the agent verified,
\* one that started before the expiry and is still in flight included.
C23_ExpiryTerminal ==
  [][/\ (ret'.tool = "inv_confirm_verification" /\ ret'.startExpired
            /\ ret'.startStatus = "pending")
          => /\ ret'.status = "expired"
             /\ ret'.fetches = 0
             /\ UNCHANGED <<agents, transfers, wallet_sync, procs>>
     /\ (ret'.tool = "inv_confirm_verification" /\ ret'.status = "verified"
            /\ agents'[ret'.id] # agents[ret'.id])
          => ret'.crit.tag \notin expiredReturned]_vars

\* C24: each backward sync resumes below the lowest logical time fetched by
\* the syncs before it: the first request of syncOlderEvents asks for
\* events before an lt that no cached transfer of the wallet lies under.
C24_BackwardSyncResumesBelowFetched ==
  [][\A pr \in BagToSet(procs') :
       (pr.pc = "sync_old" /\ pr.page = 0)
         => \A r \in transfers' : r.wallet = pr.call.crit.wallet => pr.cursor <= r.lt]_vars

\* What C25 says of one step of tonapiFetchWithRetry, R being the statuses
\* it retries: no more than MAX_ATTEMPTS attempts; nothing after the first
\* success or the throw; after the k-th failed attempt a pause of
\* 300 * 2^(k-1) ms and another attempt when the status is in R and
\* k < MAX_ATTEMPTS, else the last error thrown at once.
RetryFollows(R(_)) ==
  LET k == Len(retry'.errors)
      status == retry'.errors[k]
  IN /\ retry'.attempt <= MAX_ATTEMPTS
     /\ retry'.pc \in {"fetching", "backoff"} => k < MAX_ATTEMPTS
     /\ retry.pc \in {"returned", "thrown"} => retry' = retry
     /\ k = Len(retry.errors) + 1 =>
          /\ retry'.attempt = k
          /\ IF R(status) /\ k < MAX_ATTEMPTS
             THEN retry'.pc = "backoff" /\ retry'.wakeAt = now + 300 * 2 ^ (k - 1)
             ELSE retry'.pc = "thrown" /\ retry'.lastErr = status
     /\ (retry.pc = "backoff" /\ retry'.pc = "fetching") => now >= retry.wakeAt

\* 429, every 5xx status, or no status.
Any5xx(status) == status = 429 \/ (status >= 500 /\ status <= 599) \/ status = NULLI

\* 429, 500, 502, 503, 504, 522, or no status.
ListedStatus(status) == status \in {429, 500, 502, 503, 504, 522, NULLI}

\* C25 as stated: tonapiFetchWithRetry makes at most 3 attempts, retries
\* after a failure with status 429, any 5xx status or no status, makes
\* exactly one attempt on any other status, stops at the first success, waits
\* 300 * 2^(k-1) ms after the k-th failed attempt and throws the last error
\* when the attempts are exhausted.
C25_RetryOnAny5xx == [][RetryFollows(Any5xx)]_vars

\* C25 amended: as above, the retried statuses being 429, 500, 502, 503,
\* 504, 522 and no status; every other status, the other 5xx ones included,
\* is thrown after one attempt.
C25_RetryOnListedStatuses == [][RetryFollows(ListedStatus)]_vars

\* C25 witness: three attempts failed with retryable errors, the second pause
\* was of 600 ms, and the third error was thrown.
C25_ThrownAfterThreeAttempts ==
  /\ retry.pc = "thrown"
  /\ retry.attempt = MAX_ATTEMPTS
  /\ retry.errors = <<429, NULLI, 503>>
  /\ retry.lastErr = 503
  /\ now >= TickMs + 300 + 600

\* The invocation that returns in this step, as it stood awaiting upstream.
Returning(pr) ==
  /\ pr.call.tool = ret'.tool
  /\ pr.call.id = ret'.id
  /\ pr.call.crit = ret'.crit
  /\ procs' = Leave(pr)

\* C26: findTransferWithSync answers 'cache' only without an upstream
\* request; it starts a forward sync only after a cache miss outside the
\* throttle window; it starts a backward sync only from a forward sync whose
\* re-query missed, and only when the wallet's min_ts is unset or later than
\* startMs; 'sync_new' is the match of the re-query after the forward sync,
\* no backward request issued; 'sync_old' is the match of the re-query after
\* the backward sync; 'not_found' is answered only when the last re-query
\* missed.
C26_MatcherOrder ==
  [][/\ ret'.source = "cache"
          => /\ ret'.fetches = 0
             /\ ret'.match # NoMatch
             /\ ret'.match = Query(transfers, ret'.crit)
             /\ procs' = procs
     /\ \A pr \in BagToSet(procs') :
          (pr.page = 0 /\ CopiesIn(pr, procs') > CopiesIn(pr, procs))
            => LET c == pr.call.crit
                   before == wallet_sync[c.wallet]
                   after == wallet_sync'[c.wallet]
               IN IF pr.pc = "sync_new"
                  THEN /\ Query(transfers, c) = NoMatch
                       /\ ~(before.exists /\ before.last_sync_at > 0
                              /\ now - before.last_sync_at < SYNC_MIN_INTERVAL_MS)
                  ELSE /\ \E q \in BagToSet(procs) : q.pc = "sync_new" /\ q.call = pr.call
                       /\ Query(transfers', c) = NoMatch
                       /\ after.exists
                       /\ after.min_ts = NULLI \/ after.min_ts > c.startMs
     /\ ret'.source \in {"sync_new", "sync_old", "not_found"}
          => \E pr \in BagToSet(procs) :
               /\ Returning(pr)
               /\ ret'.match = Query(transfers', ret'.crit)
               /\ ret'.source = "sync_new" => pr.pc = "sync_new" /\ ret'.match # NoMatch
               /\ ret'.source = "sync_old" => pr.pc = "sync_old" /\ ret'.match # NoMatch
               /\ ret'.source = "not_found" => ret'.match = NoMatch]_vars

\* C26 witness: a transfer was found by the backward sync: the forward sync
\* read a later event, its re-query missed, and the match appeared with the
\* older page.
C26_FoundByBackwardSync ==
  /\ ret.source = "sync_old"
  /\ ret.match # NoMatch
  /\ ret.fetches >= 3
  /\ \E r \in transfers : r.lt > ret.match.lt

\* The page upstream answers the outstanding request of pr with.
PageOf(pr) ==
  LET c == pr.call.crit
  IN IF pr.pc = "sync_new"
     THEN UpstreamPage(chain, NewParams(pr.cursor, c.startMs, c.endMs))
     ELSE UpstreamPage(chain, OldParams(pr.cursor, c.startMs, c.endMs))

PaysExactly(r, i, endMs) ==
  LET row == invoices[i]
  IN /\ r.wallet = row.recipient_wallet
     /\ r.comment = row.comment
     /\ r.amount_nano >= row.amount_nano
     /\ row.expected_sender_wallet # "" => sameAddress(r.sender, row.expected_sender_wallet)
     /\ r.timestamp >= row.created_at
     /\ r.timestamp <= endMs

\* C28: a cached transfer that carries exactly the stored comment of an
\* invoice (amount, sender and time as required) is matched by inv_check of
\* that invoice - the check does not answer not_found while such a row is
\* cached - and no inv_check of another invoice and no
\* inv_confirm_verification is answered with a transfer carrying that
\* comment, whatever the invoice id the caller supplied.
C28_TagIsolation ==
  \A i \in DOMAIN invoices :
    invoices[i].exists =>
      /\ (ret.tool = "inv_check" /\ ret.id = i /\ ret.status = "not_found")
           => ~\E r \in transfers : PaysExactly(r, i, ret.crit.endMs)
      /\ (ret.tool \in {"inv_check", "inv_confirm_verification"} /\ ret.id # i
             /\ ret.match # NoMatch)
           => ret.match.comment # invoices[i].comment

\* C29: whenever inv_create, inv_check (on payment) or inv_receipt reports
\* an identity_level, it is the level of the stored invoice: wallet_verified
\* with an expected sender and a verified payer agent, wallet with an
\* expected sender otherwise, none with no expected sender, no payer agent
\* and strict mode off, comment_only in the remaining case - so the three
\* tools report the same level for one invoice.
C29_IdentityLevelAgrees ==
  (ret.tool \in {"inv_create", "inv_check", "inv_receipt"} /\ ret.identity_level # "")
    => LET invoice == invoices[ret.id]
       IN ret.identity_level =
            IF invoice.expected_sender_wallet # ""
            THEN (IF invoice.payer_agent_verified = 1 THEN "wallet_verified" ELSE "wallet")
            ELSE IF invoice.payer_agent = <<>> /\ invoice.strict_sender = 0 THEN "none"
            ELSE "comment_only"

\* C30: the time stored on confirmation is the on-chain time of the matched
\* transfer: paid_at of an invoice that inv_check has just marked paid (and
\* verified_at of an agent that inv_confirm_verification has just verified)
\* is the upstream timestamp of the matched event, in milliseconds, and so
\* lies between created_at and the end of the window (expires_at, or the
\* time of the check when there is no expiry).
C30_PaidAtIsEventTime ==
  /\ (ret.tool = "inv_check" /\ ret.status = "paid" /\ ret.match # NoMatch)
       => LET invoice == invoices[ret.id]
          IN /\ invoice.paid_at = eventTimeMs(chain[ret.match.event_id].timestamp)
             /\ invoice.created_at <= invoice.paid_at
             /\ invoice.paid_at <= ret.crit.endMs
  /\ (ret.tool = "inv_confirm_verification" /\ ret.status = "verified"
        /\ ret.match # NoMatch)
       => agents[ret.id].verified_at = eventTimeMs(chain[ret.match.event_id].timestamp)

====
